---- MODULE Spec2Model ----
(***************************************************************************)
(* A model of the schema-driven protocol engine of moto:                   *)
(*   - the request decoders of moto/core/parse.py,                         *)
(*   - the operation router of moto/core/routing.py,                       *)
(*   - the response encoders of moto/motocore/serialize.py.                *)
(*                                                                         *)
(* Python values are tagged records [t |-> <type>, v |-> <value>]; a       *)
(* Python dict is a TLA+ function whose DOMAIN is the dict's key set; a    *)
(* Python exception leaving a call is the record [raised |-> <class>].     *)
(***************************************************************************)
EXTENDS Integers, Sequences, FiniteSets, TLC

VARIABLES
    uri_match,     \* BaseRestParser.uri_match, an attribute of the parser instance
    pc,            \* per worker: the position inside RequestParser.parse
    req,           \* per worker: the request_dict handed to parse
    action,        \* per worker: the local `action` of parse
    idx,           \* per worker: the position of the running for-loop
    final_parsed,  \* per worker: the local dict built by _do_parse
    outcome,       \* per worker: what parse returned or raised
    protocol,      \* the protocol of the service model, which fixes the parser class
    resolved,      \* the shape objects the shape resolvers have returned, oldest first
    METADATA_ATTRS, \* the class attribute botocore.model.Shape.METADATA_ATTRS, a list
    environ,       \* os.environ: the variables that are set, by name
    db_snapshots,  \* DBSnapshotBackend.db_snapshots, in insertion order
    db_cluster_snapshots, \* DBClusterSnapshotBackend.db_cluster_snapshots, in insertion order
    pages,         \* the pages a client has received while describing page by page
    addresses,     \* ElasticAddressBackend.addresses
    distributions  \* CloudFrontBackend.distributions, in insertion order

restVars == <<uri_match, pc, req, action, idx, final_parsed, outcome, protocol>>

resolverVars == <<resolved, METADATA_ATTRS>>

backendVars == <<environ, db_snapshots, db_cluster_snapshots, pages, addresses,
                 distributions>>

vars == <<uri_match, pc, req, action, idx, final_parsed, outcome, protocol,
          resolved, METADATA_ATTRS, environ, db_snapshots, db_cluster_snapshots,
          pages, addresses, distributions>>

\* the attribute as botocore defines it, and no shape resolved yet
NothingResolved ==
    /\ resolved = <<>>
    /\ METADATA_ATTRS = <<"enum", "max", "min", "error", "exception">>

\* no environment variable set and every backend as it is constructed
NoBackend ==
    /\ environ = [name \in {} |-> ""]
    /\ db_snapshots = <<>>
    /\ db_cluster_snapshots = <<>>
    /\ pages = <<>>
    /\ addresses = <<>>
    /\ distributions = <<>>

---------------------------------------------------------------------------
(* Python values *)

EmptyDict == [k \in {} |-> k]

Str(s) == [t |-> "str", v |-> s]

None == [t |-> "None", v |-> "None"]

Dict(f) == [t |-> "dict", v |-> f]

\* dict.get(key, default)
Get(d, key, default) == IF key \in DOMAIN d THEN d[key] ELSE default

\* dict.update / item assignment: the right operand wins
Update(d, e) == e @@ d

Bool(b) == [t |-> "bool", v |-> b]

\* the module-level sentinel UNDEFINED = object()
UNDEFINED == [t |-> "UNDEFINED", v |-> "UNDEFINED"]

\* an xml.etree Element: its tag, its text (None or a str) and its child elements
Elem(tag, text, children) == [t |-> "elem", tag |-> tag, text |-> text, children |-> children]

\* the truth value of a decoded Python value
Truthy(x) ==
    CASE x.t = "None" -> FALSE
      [] x.t = "dict" -> DOMAIN x.v # {}
      [] x.t = "str" -> x.v # ""
      [] x.t = "bool" -> x.v
      [] x.t = "int" -> x.v # 0
      [] x.t = "list" -> Len(x.v) > 0
      [] OTHER -> TRUE

Raised(cls) == [raised |-> cls]

IsRaised(r) == "raised" \in DOMAIN r

---------------------------------------------------------------------------
(* Shapes: [type_name, serialization, members] as botocore.model.Shape     *)
(* exposes them; serialization is the dict of the shape's traits           *)
(* (locationName is stored under "name").                                  *)

ListShape(serialization, member) ==
    [type_name |-> "list", serialization |-> serialization, member |-> member]

ScalarShape(type_name, serialization) ==
    [type_name |-> type_name, serialization |-> serialization, members |-> <<>>]

StructureShape(serialization, members) ==
    [type_name |-> "structure", serialization |-> serialization, members |-> members]

Member(mname, shape) == [mname |-> mname, shape |-> shape]

Lit(text) == [lit |-> text]

\* a "{name}" element of a requestUri, "{name+}" when greedy
Var(name, greedy) == [var |-> name, greedy |-> greedy]

Operation(name, method, requestUri, input_shape) ==
    [name |-> name, http |-> [method |-> method, requestUri |-> requestUri],
     input_shape |-> input_shape]

\* operation_model.input_shape is None
NoShape == [type_name |-> "None", serialization |-> EmptyDict, members |-> <<>>]

---------------------------------------------------------------------------
(* Text conversions of the standard library, on the strings of the model *)

\* str.replace("-", "_")
ReplaceHyphen(s) == CASE s = "broker-id" -> "broker_id" [] OTHER -> s

\* urllib.parse.unquote
Unquote(s) == CASE s = "a%20b" -> "a b" [] OTHER -> s

\* str.lower
Lower(s) == CASE s = "True" -> "true" [] s = "TRUE" -> "true" [] OTHER -> s

\* the strings int() accepts, with their values
IntLiterals == [s \in {ToString(n) : n \in 0..100} |-> CHOOSE n \in 0..100 : ToString(n) = s]

\* int(text)
IntOf(text) ==
    IF text \in DOMAIN IntLiterals
    THEN [t |-> "int", v |-> IntLiterals[text]]
    ELSE Raised("ValueError")

RECURSIVE JoinSlash(_)
\* "/".join(segments)
JoinSlash(segs) ==
    IF Len(segs) = 0 THEN ""
    ELSE IF Len(segs) = 1 THEN segs[1]
    ELSE segs[1] \o "/" \o JoinSlash(Tail(segs))

---------------------------------------------------------------------------
(* BaseRestParser.uri_to_regexp and re.match.  A path "/a/b" is the        *)
(* sequence <<"a", "b">> of its "/"-separated elements after the leading   *)
(* empty one; a regexp is the sequence of its "/"-joined parts.            *)

\* _convert(elem, is_last)
Convert(elem, is_last) ==
    IF "lit" \in DOMAIN elem
    THEN [kind |-> "lit", text |-> elem.lit]
    ELSE [kind |-> "group",
          name |-> ReplaceHyphen(elem.var),
          capture |-> IF is_last
                      THEN (IF elem.greedy THEN ".+" ELSE "[^/]+")
                      ELSE "[^/]*"]

uri_to_regexp(uri) == [i \in 1..Len(uri) |-> Convert(uri[i], i = Len(uri))]

\* the match object of a successful re.match: its named groups
Match(groups) == [state |-> "match", groups |-> groups]

\* re.match returned None
NoMatch == [state |-> "None", groups |-> EmptyDict]

\* the attribute was never assigned
Unset == [state |-> "unset", groups |-> EmptyDict]

PartMatches(part, seg) ==
    CASE part.kind = "lit" -> seg = part.text
      [] part.capture = "[^/]*" -> TRUE
      [] OTHER -> seg # ""

\* re.match("^" + "/".join(parts) + "$", path)
ReMatch(regexp, path) ==
    LET n == Len(regexp)
        greedy == n > 0 /\ regexp[n].kind = "group" /\ regexp[n].capture = ".+"
        rest == IF Len(path) >= n /\ n > 0 THEN JoinSlash(SubSeq(path, n, Len(path))) ELSE ""
        fits == IF greedy
                THEN /\ Len(path) >= n
                     /\ \A i \in 1..(n - 1) : PartMatches(regexp[i], path[i])
                     /\ rest # ""
                ELSE /\ Len(path) = n
                     /\ \A i \in 1..n : PartMatches(regexp[i], path[i])
        names == {regexp[i].name : i \in {j \in 1..n : regexp[j].kind = "group"}}
        value(nm) == LET i == CHOOSE j \in 1..n : regexp[j].kind = "group" /\ regexp[j].name = nm
                     IN IF i = n /\ greedy THEN rest ELSE path[i]
    IN IF fits THEN Match([nm \in names |-> value(nm)]) ELSE NoMatch

---------------------------------------------------------------------------
(* The shape walk of the REST parsers.  RestJSONParser takes its handlers  *)
(* from BaseRestParser, BaseJSONParser, RequestParser in that order,       *)
(* RestXMLParser from BaseRestParser, BaseXMLParser, RequestParser.        *)

\* the index of a member name in a structure's ordered members
MemberIndex(members, mname) == CHOOSE i \in 1..Len(members) : members[i].mname = mname

\* The dict a structure handler has built from its members, in member order:
\* present[i] says whether member i is parsed at all, results[i] is what
\* _parse_shape gave for it; the first exception raised leaves the handler.
CollectMembers(members, present, results) ==
    LET taken == {i \in 1..Len(members) : present[i]}
        failed == {i \in taken : IsRaised(results[i])}
    IN IF failed # {}
       THEN results[CHOOSE i \in failed : \A j \in failed : i <= j]
       ELSE Dict([m \in {members[i].mname : i \in taken} |->
                     results[MemberIndex(members, m)]])

\* the _text_content decorator
TextContent(node) ==
    IF node.t = "elem"
    THEN (IF node.text = None THEN Str("") ELSE node.text)
    ELSE node

\* BaseXMLParser._build_name_to_xml_node for an element: tag -> node, the
\* nodes of a repeated tag aggregated into a list
BuildNameToXmlNode(parent_node) ==
    LET kids == parent_node.children
        tags == {kids[i].tag : i \in 1..Len(kids)}
        same(tag) == SelectSeq(kids, LAMBDA k : k.tag = tag)
    IN [tag \in tags |->
          IF Len(same(tag)) = 1 THEN same(tag)[1] ELSE [t |-> "list", v |-> same(tag)]]

\* BaseXMLParser._member_key_name
MemberKeyName(shape, member_name) ==
    IF /\ shape.type_name = "list"
       /\ Get(shape.serialization, "flattened", FALSE)
       /\ "name" \in DOMAIN shape.member.serialization
    THEN shape.member.serialization["name"]
    ELSE Get(shape.serialization, "name", member_name)

RECURSIVE ParseShape(_, _, _)

\* BaseJSONParser._handle_structure
JSON_handle_structure(proto, shape, value) ==
    IF value = None THEN None
    ELSE IF value.t # "dict" THEN Raised("AttributeError")
    ELSE LET members == shape.members
             json_name(i) == Get(members[i].shape.serialization, "name", members[i].mname)
             raw_value(i) == Get(value.v, json_name(i), None)
             present == [i \in 1..Len(members) |-> raw_value(i) # None]
             results == [i \in 1..Len(members) |->
                            IF present[i]
                            THEN ParseShape(proto, members[i].shape, raw_value(i))
                            ELSE None]
         IN CollectMembers(members, present, results)

\* RequestParser._handle_list for a node that is a JSON array, or one that
\* cannot be iterated (null, a boolean, a number)
Request_handle_list(proto, shape, node) ==
    IF node.t # "list" THEN Raised("TypeError")
    ELSE LET parsed == [i \in 1..Len(node.v) |-> ParseShape(proto, shape.member, node.v[i])]
             failed == {i \in 1..Len(node.v) : IsRaised(parsed[i])}
         IN IF failed # {} THEN parsed[CHOOSE i \in failed : \A j \in failed : i <= j]
            ELSE [t |-> "list", v |-> parsed]

\* RestJSONParser._handle_boolean
JSON_handle_boolean(shape, value) ==
    IF value.t = "bool" THEN value
    ELSE IF value.t = "str" THEN Bool(Lower(value.v) = "true")
    ELSE UNDEFINED

\* BaseXMLParser._handle_structure (members without the xmlAttribute trait)
XML_handle_structure(proto, shape, node) ==
    IF node.t \notin {"elem", "list"} THEN Raised("AttributeError")
    ELSE LET members == shape.members
             xml_dict == BuildNameToXmlNode(IF node.t = "list" THEN node.v[1] ELSE node)
             xml_name(i) == MemberKeyName(members[i].shape, members[i].mname)
             present == [i \in 1..Len(members) |->
                            /\ "location" \notin DOMAIN members[i].shape.serialization
                            /\ xml_name(i) \in DOMAIN xml_dict]
             results == [i \in 1..Len(members) |->
                            IF present[i]
                            THEN ParseShape(proto, members[i].shape, xml_dict[xml_name(i)])
                            ELSE None]
         IN CollectMembers(members, present, results)

\* BaseXMLParser._handle_integer
XML_handle_integer(shape, node) ==
    LET text == TextContent(node)
    IN IF text.t = "str" THEN IntOf(text.v) ELSE Raised("TypeError")

\* BaseXMLParser._handle_boolean
XML_handle_boolean(shape, node) ==
    LET text == TextContent(node)
    IN Bool(text = Str("true"))

\* RequestParser._parse_shape: the handler named after shape.type_name, or
\* _default_handle, which returns the value as it is
ParseShape(proto, shape, node) ==
    IF proto = "rest-json"
    THEN CASE shape.type_name = "structure" -> JSON_handle_structure(proto, shape, node)
           [] shape.type_name = "boolean" -> JSON_handle_boolean(shape, node)
           [] shape.type_name = "list" -> Request_handle_list(proto, shape, node)
           [] OTHER -> node
    ELSE IF proto = "json"
    THEN CASE shape.type_name = "structure" -> JSON_handle_structure(proto, shape, node)
           [] shape.type_name = "list" -> Request_handle_list(proto, shape, node)
           [] OTHER -> node
    ELSE CASE shape.type_name = "structure" -> XML_handle_structure(proto, shape, node)
           [] shape.type_name = "boolean" -> XML_handle_boolean(shape, node)
           [] shape.type_name \in {"integer", "long"} -> XML_handle_integer(shape, node)
           [] shape.type_name = "string" -> TextContent(node)
           [] OTHER -> node

---------------------------------------------------------------------------
(* The body of a request: its text, and what the text is syntactically:    *)
(* "empty", a "json" document, an "xml" document, or neither ("garbage").  *)

Body(syntax, text, doc) == [syntax |-> syntax, text |-> text, doc |-> doc]

\* BaseJSONParser._parse_body_as_json
ParseBodyAsJson(body_contents) ==
    IF body_contents.syntax = "empty" THEN Dict(EmptyDict)
    ELSE IF body_contents.syntax = "json" THEN body_contents.doc
    ELSE Dict([message |-> Str(body_contents.text)])

\* BaseXMLParser._parse_xml_string_to_dom
ParseXmlStringToDom(xml_string) ==
    IF xml_string.syntax = "xml" THEN xml_string.doc
    ELSE Raised("ResponseParserError")

\* RestJSONParser._initial_body_parse and RestXMLParser._initial_body_parse
InitialBodyParse(proto, body_contents) ==
    IF proto = "rest-json" THEN ParseBodyAsJson(body_contents)
    ELSE IF body_contents.syntax = "empty" THEN Elem("", None, <<>>)
    ELSE ParseXmlStringToDom(body_contents)

\* BaseRestParser._parse_payload: final_parsed afterwards, or the exception
ParsePayload(proto, response, shape, parsed) ==
    IF "payload" \in DOMAIN shape.serialization
    THEN LET payload_member_name == shape.serialization["payload"]
             body_shape == shape.members[MemberIndex(shape.members, payload_member_name)].shape
         IN IF body_shape.type_name \in {"string", "blob"}
            THEN (IF response.body.text # ""
                  THEN Update(parsed, payload_member_name :> Str(response.body.text))
                  ELSE parsed)
            ELSE LET original_parsed == InitialBodyParse(proto, response.body)
                     value == IF IsRaised(original_parsed) THEN original_parsed
                              ELSE ParseShape(proto, body_shape, original_parsed)
                 IN IF IsRaised(value) THEN value
                    ELSE IF \/ Truthy(value)
                            \/ /\ response.body.syntax # "empty"
                               /\ value = Dict(EmptyDict)
                               /\ proto = "rest-xml"
                         THEN Update(parsed, payload_member_name :> value)
                         ELSE parsed
    ELSE LET original_parsed == InitialBodyParse(proto, response.body)
             body_parsed == IF IsRaised(original_parsed) THEN original_parsed
                            ELSE ParseShape(proto, shape, original_parsed)
         IN IF IsRaised(body_parsed) THEN body_parsed
            ELSE IF body_parsed.t # "dict" THEN Raised("TypeError")
            ELSE Update(parsed, body_parsed.v)

\* str.startswith on the header names of the model
StartsWith(s, prefix) == prefix = "" \/ (prefix = "x-meta-" /\ s \in {"x-meta-a"})

\* header_name[len(prefix):]
StripPrefix(s, prefix) == IF prefix = "x-meta-" /\ s = "x-meta-a" THEN "a" ELSE s

\* BaseRestParser._parse_header_map
ParseHeaderMap(shape, headers) ==
    LET prefix == Lower(Get(shape.serialization, "name", ""))
        hit == {h \in DOMAIN headers : StartsWith(Lower(h), prefix)}
    IN Dict([n \in {StripPrefix(h, prefix) : h \in hit} |->
               Str(headers[CHOOSE h \in hit : StripPrefix(h, prefix) = n])])

---------------------------------------------------------------------------
(* QueryParser and EC2QueryParser.  A dotted key or prefix "A.B.1" is the  *)
(* sequence <<"A", "B", "1">> that "A.B.1".split(".") gives, so the empty  *)
(* prefix "" is <<"">>; query_params maps keys to the str values sent.     *)

\* a.startswith(b) for two dot-free strings of the model
SegmentStartsWith(a, b) ==
    \/ a = b
    \/ b = ""
    \/ <<b, a>> \in {<<"Tag", "Tags">>, <<"Ba", "Bar">>, <<"1", "10">>}

\* param_key.startswith(prefix)
KeyStartsWith(param_key, prefix) ==
    LET n == Len(prefix)
    IN /\ Len(param_key) >= n
       /\ \A i \in 1..(n - 1) : param_key[i] = prefix[i]
       /\ IF Len(param_key) > n
          THEN param_key[n] = prefix[n]
          ELSE SegmentStartsWith(param_key[n], prefix[n])

\* name[0].upper() + name[1:]
Capitalize(name) ==
    CASE name = "foo" -> "Foo" [] name = "tag" -> "Tag" [] OTHER -> name

\* shape.metadata, the dict of the shape's metadata attributes
Metadata(shape) == IF "metadata" \in DOMAIN shape THEN shape.metadata ELSE EmptyDict

\* QueryParser._get_serialized_name and EC2QueryParser._get_serialized_name
GetSerializedName(proto, shape, default_name) ==
    IF proto = "ec2"
    THEN IF "queryName" \in DOMAIN shape.serialization
         THEN shape.serialization["queryName"]
         ELSE IF "name" \in DOMAIN shape.serialization
         THEN Capitalize(shape.serialization["name"])
         ELSE default_name
    ELSE Get(shape.serialization, "name", default_name)

\* QueryParser._gonna_recurse
GonnaRecurse(query_params, prefix) ==
    IF prefix = <<"">> THEN FALSE
    ELSE ~ \E param_key \in DOMAIN query_params : KeyStartsWith(param_key, prefix)

\* QueryParser._default_handle
QueryDefaultHandle(shape, value, prefix) ==
    Get(value, prefix, Get(Metadata(shape), "default", UNDEFINED))

\* QueryParser._handle_integer
QueryHandleInteger(shape, query_params, prefix) ==
    LET value == QueryDefaultHandle(shape, query_params, prefix)
    IN IF value = UNDEFINED THEN value
       ELSE IF value.t = "str" THEN IntOf(value.v)
       ELSE value

\* QueryParser._handle_boolean
QueryHandleBoolean(shape, query_params, prefix) ==
    LET value == QueryDefaultHandle(shape, query_params, prefix)
    IN IF value.t = "bool" THEN value
       ELSE IF value.t = "str" THEN Bool(Lower(value.v) = "true")
       ELSE UNDEFINED

\* "%s.%s" % (prefix, name), f"{prefix}.{name}"
Dot(prefix, name) == Append(prefix, name)

\* the prefix of the elements of a list in QueryParser._handle_list
QueryListPrefix(proto, shape, prefix) ==
    IF Get(shape.serialization, "flattened", FALSE)
    THEN IF Truthy(Str(Get(shape.member.serialization, "name", "")))
         THEN SubSeq(prefix, 1, Len(prefix) - 1)
                  \o <<GetSerializedName(proto, shape.member, "")>>
         ELSE prefix
    ELSE Dot(prefix, Get(shape.member.serialization, "name", "member"))

RECURSIVE QueryParseShape(_, _, _, _)

RECURSIVE QueryProbe(_, _, _, _, _)
\* the `while True` loop shared by QueryParser._handle_list and
\* EC2QueryParser._handle_list, from index i on: the list of the values
\* parsed, or the exception an element raised
QueryProbe(proto, shape, node, list_prefix, i) ==
    LET element_name == Dot(list_prefix, ToString(i))
        value == QueryParseShape(proto, shape.member, node, element_name)
    IN IF IsRaised(value) THEN value
       ELSE IF value = UNDEFINED THEN [t |-> "list", v |-> <<>>]
       ELSE LET rest == QueryProbe(proto, shape, node, list_prefix, i + 1)
            IN IF IsRaised(rest) THEN rest
               ELSE [t |-> "list", v |-> <<value>> \o rest.v]

\* _handle_list reporting a list without elements as [] instead of UNDEFINED
QueryHandleList_EmptyWhenAbsent(proto, shape, node, prefix) ==
    IF proto # "ec2" /\ Get(node, prefix, UNDEFINED) = Str("")
    THEN [t |-> "list", v |-> <<>>]
    ELSE QueryProbe(proto, shape, node,
                    IF proto = "ec2" THEN prefix ELSE QueryListPrefix(proto, shape, prefix), 1)

\* _handle_list probing the indexes first and looking at the bare prefix
\* only when it found no element
QueryHandleList_ProbingFirst(proto, shape, node, prefix) ==
    LET list_prefix == IF proto = "ec2" THEN prefix
                       ELSE QueryListPrefix(proto, shape, prefix)
        parsed_list == QueryProbe(proto, shape, node, list_prefix, 1)
    IN IF IsRaised(parsed_list) THEN parsed_list
       ELSE IF parsed_list.v # <<>> THEN parsed_list
       ELSE IF proto # "ec2" /\ Get(node, prefix, UNDEFINED) = Str("")
       THEN [t |-> "list", v |-> <<>>]
       ELSE UNDEFINED

\* QueryParser._handle_list and EC2QueryParser._handle_list
QueryHandleList(proto, shape, node, prefix) ==
    IF proto # "ec2" /\ Get(node, prefix, UNDEFINED) = Str("")
    THEN [t |-> "list", v |-> <<>>]
    ELSE LET list_prefix == IF proto = "ec2" THEN prefix
                            ELSE QueryListPrefix(proto, shape, prefix)
             parsed_list == QueryProbe(proto, shape, node, list_prefix, 1)
         IN IF IsRaised(parsed_list) THEN parsed_list
            ELSE IF parsed_list.v # <<>> THEN parsed_list
            ELSE UNDEFINED

\* QueryParser._handle_structure
QueryHandleStructure(proto, shape, query_params, prefix) ==
    IF GonnaRecurse(query_params, prefix) THEN UNDEFINED
    ELSE LET members == shape.members
             member_prefix(i) ==
                 LET name == GetSerializedName(proto, members[i].shape, members[i].mname)
                 IN IF prefix # <<"">> THEN Dot(prefix, name) ELSE <<name>>
             results == [i \in 1..Len(members) |->
                            QueryParseShape(proto, members[i].shape, query_params,
                                            member_prefix(i))]
             failed == {i \in 1..Len(members) : IsRaised(results[i])}
             present == [i \in 1..Len(members) |->
                            \* a member after the one that raised is never parsed
                            /\ \A j \in failed : i <= j
                            /\ (IsRaised(results[i]) \/ results[i] # UNDEFINED)]
             parsed == CollectMembers(members, present, results)
         IN IF IsRaised(parsed) THEN parsed
            ELSE IF parsed.v # EmptyDict THEN parsed
            ELSE UNDEFINED

\* QueryParser._parse_shape
QueryParseShape(proto, shape, node, prefix) ==
    CASE shape.type_name = "structure" -> QueryHandleStructure(proto, shape, node, prefix)
      [] shape.type_name = "list" -> QueryHandleList(proto, shape, node, prefix)
      [] shape.type_name \in {"integer", "long"} -> QueryHandleInteger(shape, node, prefix)
      [] shape.type_name = "boolean" -> QueryHandleBoolean(shape, node, prefix)
      [] OTHER -> QueryDefaultHandle(shape, node, prefix)

\* QueryParser._parse_action
QueryParseAction(request_dict) ==
    Get(request_dict.values, <<"Action">>, Str("UnknownAction")).v

\* QueryParser._do_parse
QueryDoParse(proto, request_dict, shape) ==
    LET parsed == QueryParseShape(proto, shape, request_dict.values, <<"">>)
    IN IF IsRaised(parsed) THEN parsed
       ELSE IF parsed # UNDEFINED THEN parsed.v
       ELSE EmptyDict

\* QueryParser._parse_params
QueryParseParams(proto, request_dict, operation_model) ==
    IF operation_model.input_shape = NoShape THEN EmptyDict
    ELSE QueryDoParse(proto, request_dict, operation_model.input_shape)

---------------------------------------------------------------------------
(* The REST service model the parser is constructed with *)

UriMember(mname, locationName) ==
    Member(mname, ScalarShape("string", ("location" :> "uri") @@ ("name" :> locationName)))

HeaderMember(mname, locationName) ==
    Member(mname, ScalarShape("string", ("location" :> "header") @@ ("name" :> locationName)))

QueryMember(mname, locationName) ==
    Member(mname, ScalarShape("string", ("location" :> "querystring") @@ ("name" :> locationName)))

BodyMember(mname, type_name) == Member(mname, ScalarShape(type_name, EmptyDict))

\* {Id: uri, Token: header X-Token, Mode: querystring mode, Name: body}
WidgetInput ==
    StructureShape(EmptyDict,
        <<UriMember("Id", "Id"), HeaderMember("Token", "X-Token"),
          QueryMember("Mode", "mode"), BodyMember("Name", "string")>>)

\* the same four locations, the uri member bound to the label "broker-id",
\* the querystring member declared before the header member
BrokerInput ==
    StructureShape(EmptyDict,
        <<UriMember("BrokerId", "broker-id"), QueryMember("Mode", "mode"),
          HeaderMember("Token", "X-Token"), BodyMember("Name", "string")>>)

RestOperations ==
    <<Operation("ListWidgets", "GET", <<Lit("widgets")>>, NoShape),
      Operation("GetWidget", "GET", <<Lit("widgets"), Var("Id", FALSE)>>,
                StructureShape(EmptyDict, <<UriMember("Id", "Id")>>)),
      Operation("PutWidget", "PUT", <<Lit("widgets"), Var("Id", FALSE)>>,
                StructureShape(EmptyDict,
                    <<UriMember("Id", "Id"), BodyMember("Name", "string")>>)),
      Operation("UpdateWidget", "POST", <<Lit("widgets"), Var("Id", FALSE)>>, WidgetInput),
      Operation("PutBroker", "PUT", <<Lit("brokers"), Var("broker-id", FALSE)>>, BrokerInput),
      Operation("CountWidgets", "POST", <<Lit("widgets")>>,
                StructureShape(EmptyDict,
                    <<BodyMember("Name", "string"), BodyMember("Count", "integer")>>))>>

\* service_model.operation_names
OperationNames(ops) == {ops[i].name : i \in 1..Len(ops)}

\* service_model.operation_model(name), for a name among operation_names
OperationModel(ops, name) == ops[CHOOSE i \in 1..Len(ops) : ops[i].name = name]

RECURSIVE MethodUrlsUpTo(_, _, _)
\* the dict method_urls[method] that _parse_action builds from the first n
\* operations: regexp -> operation name, in insertion order
MethodUrlsUpTo(ops, method, n) ==
    IF n = 0 THEN <<>>
    ELSE LET prev == MethodUrlsUpTo(ops, method, n - 1)
             op == ops[n]
             re == uri_to_regexp(op.http.requestUri)
             entry == [regexp |-> re, name |-> op.name]
         IN IF op.http.method # method THEN prev
            ELSE IF \E i \in 1..Len(prev) : prev[i].regexp = re
            THEN [i \in 1..Len(prev) |-> IF prev[i].regexp = re THEN entry ELSE prev[i]]
            ELSE Append(prev, entry)

MethodUrls(ops, method) == MethodUrlsUpTo(ops, method, Len(ops))

---------------------------------------------------------------------------
(* The query / ec2 service model the parser is constructed with *)

StringShape == ScalarShape("string", EmptyDict)

\* TagWidgets: Foo, a flattened list; Bar, a list; Tags, a flattened list
\* whose member carries locationName Tag; Count, an integer
TagWidgetsInput ==
    StructureShape(EmptyDict,
        << Member("Foo", ListShape(("flattened" :> TRUE), StringShape)),
           Member("Bar", ListShape(EmptyDict, StringShape)),
           Member("Tags", ListShape(("flattened" :> TRUE) @@ ("name" :> "Tag"), StringShape)),
           Member("Count", ScalarShape("integer", EmptyDict)) >>)

\* EnableWidget: Enabled, a boolean
EnableWidgetInput ==
    StructureShape(EmptyDict, << Member("Enabled", ScalarShape("boolean", EmptyDict)) >>)

QueryOperations ==
    << Operation("TagWidgets", "POST", <<>>, TagWidgetsInput),
       Operation("ListTags", "POST", <<>>, NoShape),
       Operation("EnableWidget", "POST", <<>>, EnableWidgetInput) >>

---------------------------------------------------------------------------
(* The requests *)

Workers == {"w1", "w2"}

RequestDict(method, url_path, headers, values, body) ==
    [method |-> method, url_path |-> url_path, headers |-> headers,
     values |-> values, body |-> body]

JsonObject(text, f) == Body("json", text, Dict(f))

XmlDocument(text, children) == Body("xml", text, Elem("Request", None, children))

NameOnly == ("Name" :> Str("foo"))

\* a document that also has keys named like the location-bound members
Clashing ==
    NameOnly @@ ("Id" :> Str("evil")) @@ ("X-Token" :> Str("evil"))
             @@ ("mode" :> Str("evil")) @@ ("broker-id" :> Str("evil"))

RestBodies ==
    { Body("empty", "", None),
      JsonObject("{Name:foo}", NameOnly),
      JsonObject("{Name:foo,Id:evil,..}", Clashing),
      JsonObject("{Name:null}", ("Name" :> None)),
      JsonObject("{}", EmptyDict),
      JsonObject("{Name:foo,Count:many}", NameOnly @@ ("Count" :> Str("many"))),
      Body("json", "[foo]", [t |-> "list", v |-> <<Str("foo")>>]),
      Body("json", "null", None),
      Body("garbage", "<Request", None),
      XmlDocument("<Request><Name>foo</Name></Request>", <<Elem("Name", Str("foo"), <<>>)>>),
      XmlDocument("<Request><Name>foo</Name><Id>evil</Id></Request>",
                  <<Elem("Name", Str("foo"), <<>>), Elem("Id", Str("evil"), <<>>)>>),
      XmlDocument("<Request><Name>foo</Name><Count>many</Count></Request>",
                  <<Elem("Name", Str("foo"), <<>>), Elem("Count", Str("many"), <<>>)>>) }

RestPaths ==
    { <<"widgets", "abc123">>, <<"widgets", "a%20b">>, <<"widgets">>,
      <<"brokers", "b-1">>, <<"nowhere">> }

RestHeaders == { EmptyDict, ("X-Token" :> "tok") }

RestValues == { EmptyDict, ("mode" :> "fast") }

RestRequests ==
    { RequestDict(m, p, h, v, b) :
        m \in {"GET", "PUT", "POST"}, p \in RestPaths, h \in RestHeaders,
        v \in RestValues, b \in RestBodies }

\* the requests two workers decode at the same time
ConcurrentRequests ==
    { RequestDict(m, p, ("X-Token" :> "tok"), ("mode" :> "fast"),
                  JsonObject("{Name:foo}", NameOnly)) :
        m \in {"GET", "PUT", "POST"},
        p \in { <<"widgets", "abc123">>, <<"widgets", "a%20b">>, <<"widgets">> } }

\* the largest list index a request of the model carries
MaxIndex == 3

\* the keys prefix.i for i in indexes, each with a value that names its index
Indexed(prefix, indexes) ==
    [k \in {Dot(prefix, ToString(i)) : i \in indexes} |-> Str("v" \o k[Len(k)])]

\* a key that is absent when value is UNDEFINED
Field(key, value) == IF value = UNDEFINED THEN EmptyDict ELSE (key :> value)

\* the form fields of the requests sent to the query and ec2 parsers
QueryValues ==
    { Field(<<"Action">>, act) @@ Indexed(<<"Foo">>, foo) @@ Field(<<"Foo">>, bare)
        @@ Indexed(<<"Bar", "member">>, bar) @@ Indexed(<<"Bar">>, ec2bar)
        @@ Indexed(<<"Tag">>, tag) @@ Field(<<"Count">>, count) :
        act \in {UNDEFINED, Str("TagWidgets"), Str("ListTags"), Str("Bogus")},
        foo \in SUBSET (1..MaxIndex),
        bare \in {UNDEFINED, Str(""), Str("x")},
        bar \in SUBSET (1..2),
        ec2bar \in SUBSET {1},
        tag \in SUBSET (1..2),
        count \in {UNDEFINED, Str("5"), Str("abc")} }

\* the spellings of a boolean a request carries
BooleanTexts == {"true", "false", "True", "TRUE", "yes"}

\* the form fields of the requests for EnableWidget
BooleanValues ==
    { Field(<<"Action">>, Str("EnableWidget")) @@ Field(<<"Enabled">>, enabled) :
        enabled \in {UNDEFINED} \cup {Str(text) : text \in BooleanTexts} }

QueryRequests ==
    { RequestDict("POST", <<>>, EmptyDict, values, Body("empty", "", None)) :
        values \in QueryValues \cup BooleanValues }

NoRequest == RequestDict("", <<>>, EmptyDict, EmptyDict, Body("empty", "", None))

Pending == [pending |-> TRUE]

---------------------------------------------------------------------------
(* RequestParser.parse of a REST parser, one action per step at which the  *)
(* interpreter may switch threads between two accesses of self.uri_match.  *)

InputShape(w) == OperationModel(RestOperations, action[w]).input_shape

Raise(w, exc) ==
    /\ outcome' = [outcome EXCEPT ![w] = exc]
    /\ pc' = [pc EXCEPT ![w] = "done"]

\* parse is called with a request
Start(w, requests) ==
    /\ pc[w] = "idle"
    /\ \E r \in requests : req' = [req EXCEPT ![w] = r]
    /\ pc' = [pc EXCEPT ![w] = "parse_action"]
    /\ idx' = [idx EXCEPT ![w] = 1]
    /\ UNCHANGED <<uri_match, action, final_parsed, outcome, protocol>>
    /\ UNCHANGED <<resolverVars, backendVars>>

\* BaseRestParser._parse_action: one turn of `for regexp, name in ...`
ParseAction(w) ==
    /\ pc[w] = "parse_action"
    /\ LET regexp_and_names == MethodUrls(RestOperations, req[w].method)
       IN IF idx[w] > Len(regexp_and_names)
          THEN /\ action' = [action EXCEPT ![w] = "UnknownOperation"]
               /\ pc' = [pc EXCEPT ![w] = "operation_model"]
               /\ UNCHANGED <<uri_match, idx>>
          ELSE LET match == ReMatch(regexp_and_names[idx[w]].regexp, req[w].url_path)
               IN /\ uri_match' = match
                  /\ IF match.state = "match"
                     THEN /\ action' = [action EXCEPT ![w] = regexp_and_names[idx[w]].name]
                          /\ pc' = [pc EXCEPT ![w] = "operation_model"]
                          /\ UNCHANGED idx
                     ELSE /\ idx' = [idx EXCEPT ![w] = idx[w] + 1]
                          /\ UNCHANGED <<action, pc>>
    /\ UNCHANGED <<req, final_parsed, outcome, protocol>>
    /\ UNCHANGED <<resolverVars, backendVars>>

\* parse: operation_model = self.service_model.operation_model(action)
LookupOperation(w) ==
    /\ pc[w] = "operation_model"
    /\ IF action[w] \in OperationNames(RestOperations)
       THEN /\ pc' = [pc EXCEPT ![w] = "parse_params"]
            /\ UNCHANGED outcome
       ELSE Raise(w, Raised("OperationNotFoundError"))
    /\ UNCHANGED <<uri_match, req, action, idx, final_parsed, protocol>>
    /\ UNCHANGED <<resolverVars, backendVars>>

\* BaseRestParser._parse_params, then RequestParser._parse_params up to the
\* call of _parse_non_payload_attrs
ParseParams(w) ==
    /\ pc[w] = "parse_params"
    /\ LET operation_model == OperationModel(RestOperations, action[w])
           uri_regexp == uri_to_regexp(operation_model.http.requestUri)
       IN uri_match' = ReMatch(uri_regexp, req[w].url_path)
    /\ IF InputShape(w) = NoShape
       THEN /\ outcome' = [outcome EXCEPT ![w] = [action |-> action[w], params |-> EmptyDict]]
            /\ pc' = [pc EXCEPT ![w] = "done"]
            /\ UNCHANGED <<idx, final_parsed>>
       ELSE /\ final_parsed' = [final_parsed EXCEPT ![w] = EmptyDict]
            /\ idx' = [idx EXCEPT ![w] = 1]
            /\ pc' = [pc EXCEPT ![w] = "non_payload"]
            /\ UNCHANGED outcome
    /\ UNCHANGED <<req, action, protocol>>
    /\ UNCHANGED <<resolverVars, backendVars>>

\* final_parsed[name] = self._parse_shape(member_shape, value), then the next member
StoreMember(w, name, member_shape, value) ==
    LET parsed == ParseShape(protocol, member_shape, value)
    IN IF IsRaised(parsed)
       THEN Raise(w, parsed) /\ UNCHANGED <<idx, final_parsed>>
       ELSE /\ final_parsed' = [final_parsed EXCEPT ![w] = Update(@, name :> parsed)]
            /\ idx' = [idx EXCEPT ![w] = idx[w] + 1]
            /\ pc' = [pc EXCEPT ![w] = "non_payload"]
            /\ UNCHANGED outcome

NextMember(w) ==
    /\ idx' = [idx EXCEPT ![w] = idx[w] + 1]
    /\ pc' = [pc EXCEPT ![w] = "non_payload"]
    /\ UNCHANGED <<final_parsed, outcome>>

\* the `return` inside the loop of _parse_non_payload_attrs
ReturnFromLoop(w) ==
    /\ pc' = [pc EXCEPT ![w] = "payload"]
    /\ UNCHANGED <<idx, outcome>>

\* BaseRestParser._parse_non_payload_attrs: one turn of `for name in member_shapes`,
\* for a uri member up to the test `if self.uri_match:`
NonPayloadAttr(w) ==
    /\ pc[w] = "non_payload"
    /\ LET member_shapes == InputShape(w).members
       IN IF idx[w] > Len(member_shapes)
          THEN ReturnFromLoop(w) /\ UNCHANGED final_parsed
          ELSE LET name == member_shapes[idx[w]].mname
                   member_shape == member_shapes[idx[w]].shape
                   ser == member_shape.serialization
                   location == Get(ser, "location", "None")
                   member_name == Get(ser, "name", name)
               IN CASE location = "headers" ->
                         /\ final_parsed' = [final_parsed EXCEPT ![w] =
                               Update(@, name :> ParseHeaderMap(member_shape, req[w].headers))]
                         /\ idx' = [idx EXCEPT ![w] = idx[w] + 1]
                         /\ UNCHANGED <<pc, outcome>>
                    [] location = "header" ->
                         IF member_name \in DOMAIN req[w].headers
                         THEN StoreMember(w, name, member_shape, Str(req[w].headers[member_name]))
                         ELSE NextMember(w)
                    [] location = "uri" ->
                         CASE uri_match.state = "unset" ->
                                Raise(w, Raised("AttributeError")) /\ UNCHANGED <<idx, final_parsed>>
                           [] uri_match.state = "None" -> NextMember(w)
                           [] OTHER ->
                                /\ pc' = [pc EXCEPT ![w] = "uri_group"]
                                /\ UNCHANGED <<idx, final_parsed, outcome>>
                    [] location = "querystring" ->
                         IF member_shape.type_name = "list"
                         THEN StoreMember(w, name, member_shape,
                                  Get(req[w].values, member_name, [t |-> "list", v |-> <<>>]))
                         ELSE IF member_shape.type_name = "map"
                         THEN /\ final_parsed' = [final_parsed EXCEPT ![w] =
                                    Update(@, name :> Dict(req[w].values))]
                              /\ ReturnFromLoop(w)
                         ELSE IF member_name \notin DOMAIN req[w].values
                         THEN ReturnFromLoop(w) /\ UNCHANGED final_parsed
                         ELSE StoreMember(w, name, member_shape, Str(req[w].values[member_name]))
                    [] OTHER -> NextMember(w)
    /\ UNCHANGED <<uri_match, req, action, protocol>>
    /\ UNCHANGED <<resolverVars, backendVars>>

\* _parse_non_payload_attrs for a uri member, from self.uri_match.group(member_name) on
UriGroup(w) ==
    /\ pc[w] = "uri_group"
    /\ LET member_shapes == InputShape(w).members
           name == member_shapes[idx[w]].mname
           member_shape == member_shapes[idx[w]].shape
           member_name == Get(member_shape.serialization, "name", name)
       IN CASE uri_match.state # "match" ->
                 Raise(w, Raised("AttributeError")) /\ UNCHANGED <<idx, final_parsed>>
            [] member_name \notin DOMAIN uri_match.groups ->
                 \* except IndexError: pass
                 NextMember(w)
            [] OTHER ->
                 StoreMember(w, name, member_shape, Str(Unquote(uri_match.groups[member_name])))
    /\ UNCHANGED <<uri_match, req, action, protocol>>
    /\ UNCHANGED <<resolverVars, backendVars>>

\* BaseRestParser._parse_payload, and parse returns
Payload(w) ==
    /\ pc[w] = "payload"
    /\ LET parsed == ParsePayload(protocol, req[w], InputShape(w), final_parsed[w])
       IN IF IsRaised(parsed)
          THEN Raise(w, parsed) /\ UNCHANGED final_parsed
          ELSE /\ final_parsed' = [final_parsed EXCEPT ![w] = parsed]
               /\ outcome' = [outcome EXCEPT ![w] = [action |-> action[w], params |-> parsed]]
               /\ pc' = [pc EXCEPT ![w] = "done"]
    /\ UNCHANGED <<uri_match, req, action, idx, protocol>>
    /\ UNCHANGED <<resolverVars, backendVars>>

\* the caller takes the outcome; the parser instance is kept for the next request
Return(w) ==
    /\ pc[w] = "done"
    /\ pc' = [pc EXCEPT ![w] = "idle"]
    /\ req' = [req EXCEPT ![w] = NoRequest]
    /\ action' = [action EXCEPT ![w] = ""]
    /\ idx' = [idx EXCEPT ![w] = 0]
    /\ final_parsed' = [final_parsed EXCEPT ![w] = EmptyDict]
    /\ outcome' = [outcome EXCEPT ![w] = Pending]
    /\ UNCHANGED <<uri_match, protocol>>
    /\ UNCHANGED <<resolverVars, backendVars>>

Init ==
    /\ uri_match = Unset
    /\ pc = [w \in Workers |-> "idle"]
    /\ req = [w \in Workers |-> NoRequest]
    /\ action = [w \in Workers |-> ""]
    /\ idx = [w \in Workers |-> 0]
    /\ final_parsed = [w \in Workers |-> EmptyDict]
    /\ outcome = [w \in Workers |-> Pending]
    /\ protocol \in {"rest-json", "rest-xml"}
    /\ NothingResolved
    /\ NoBackend

\* a worker calls parse whatever the other workers are doing
StartConcurrent(w) == Start(w, ConcurrentRequests)

\* a worker calls parse when no other call is running
StartAlone(w) ==
    /\ \A o \in Workers \ {w} : pc[o] = "idle"
    /\ Start(w, RestRequests)

Next ==
    \E w \in Workers :
        \/ StartConcurrent(w)
        \/ ParseAction(w)
        \/ LookupOperation(w)
        \/ ParseParams(w)
        \/ NonPayloadAttr(w)
        \/ UriGroup(w)
        \/ Payload(w)
        \/ Return(w)

\* the workers of a threaded server decode through one parser instance
Spec == Init /\ [][Next]_vars

NextSeq ==
    \E w \in Workers :
        \/ StartAlone(w)
        \/ ParseAction(w)
        \/ LookupOperation(w)
        \/ ParseParams(w)
        \/ NonPayloadAttr(w)
        \/ UriGroup(w)
        \/ Payload(w)
        \/ Return(w)

\* one parse call at a time on the parser instance
SpecSeq == Init /\ [][NextSeq]_vars

---------------------------------------------------------------------------
(* RequestParser.parse on a QueryParser or an EC2QueryParser, which keep   *)
(* no state between the steps of a call                                    *)

\* parse is called with a form-encoded request when no other call is running
QueryStart(w) ==
    /\ \A o \in Workers \ {w} : pc[o] = "idle"
    /\ Start(w, QueryRequests)
    /\ UNCHANGED <<resolverVars, backendVars>>

\* RequestParser.parse: _parse_action, operation_model, _parse_params
QueryParse(w) ==
    /\ pc[w] = "parse_action"
    /\ LET name == QueryParseAction(req[w])
       IN /\ action' = [action EXCEPT ![w] = name]
          /\ IF name \notin OperationNames(QueryOperations)
             THEN Raise(w, Raised("OperationNotFoundError"))
             ELSE LET parsed == QueryParseParams(protocol, req[w],
                                                 OperationModel(QueryOperations, name))
                  IN IF IsRaised(parsed)
                     THEN Raise(w, parsed)
                     ELSE /\ outcome' = [outcome EXCEPT ![w] =
                                            [action |-> name, params |-> parsed]]
                          /\ pc' = [pc EXCEPT ![w] = "done"]
    /\ UNCHANGED <<uri_match, req, idx, final_parsed, protocol>>
    /\ UNCHANGED <<resolverVars, backendVars>>

InitQuery ==
    /\ uri_match = Unset
    /\ pc = [w \in Workers |-> "idle"]
    /\ req = [w \in Workers |-> NoRequest]
    /\ action = [w \in Workers |-> ""]
    /\ idx = [w \in Workers |-> 0]
    /\ final_parsed = [w \in Workers |-> EmptyDict]
    /\ outcome = [w \in Workers |-> Pending]
    /\ protocol \in {"query", "ec2"}
    /\ NothingResolved
    /\ NoBackend

NextQuery ==
    \E w \in Workers :
        \/ QueryStart(w)
        \/ QueryParse(w)
        \/ Return(w)

\* the decoding of form-encoded requests
SpecQuery == InitQuery /\ [][NextQuery]_vars

---------------------------------------------------------------------------
(* The operation router of moto/core/routing.py.  A request path is the    *)
(* sequence of the elements that follow its leading "/", so "/" is <<"">>  *)
(* and "/resource/" is <<"resource", "">>; request.args maps a key to the  *)
(* list of its values.                                                     *)

\* an operation with the query part of its requestUri and its deprecated flag
RoutedOperation(op, query, deprecated) ==
    [name |-> op.name,
     http |-> [method |-> op.http.method, requestUri |-> op.http.requestUri,
               query |-> query],
     input_shape |-> op.input_shape,
     deprecated |-> deprecated]

\* a structure shape with its list of required member names
RequiredStructure(members, required) ==
    [type_name |-> "structure", serialization |-> EmptyDict, members |-> members,
     required |-> required]

\* str.translate(_rule_replacement_table)
EscapeRuleVariable(name) == CASE name = "broker-id" -> "broker_0_id" [] OTHER -> name

\* post_process_arg_name
post_process_arg_name(arg_key) ==
    CASE arg_key = "broker_0_id" -> "broker-id" [] OTHER -> arg_key

\* path_param_regex.sub(transform_path_params_to_rule_vars, path)
RuleString(path) ==
    [i \in 1..Len(path) |->
        IF "lit" \in DOMAIN path[i] THEN path[i]
        ELSE Var(EscapeRuleVariable(path[i].var), path[i].greedy)]

\* _HttpOperation.from_operation
from_operation(op) ==
    LET input_shape == op.input_shape
        required_members == IF input_shape.type_name = "structure"
                            THEN Get(input_shape, "required", <<>>) ELSE <<>>
        member_shape(k) ==
            input_shape.members[MemberIndex(input_shape.members, required_members[k])].shape
        location(k) == Get(member_shape(k).serialization, "location", "")
        header_members == SelectSeq([k \in 1..Len(required_members) |-> k],
                                    LAMBDA k : location(k) = "header")
        query_names == {member_shape(k).serialization["name"] :
                            k \in {n \in 1..Len(required_members) :
                                       location(n) = "querystring"}}
    IN [operation |-> op,
        path |-> op.http.requestUri,
        method |-> op.http.method,
        query_args |-> op.http.query @@ [name \in query_names |-> <<>>],
        header_args |-> [k \in 1..Len(header_members) |->
                            member_shape(header_members[k]).serialization["name"]],
        deprecated |-> op.deprecated]

\* _RequiredArgsRule.__init__
RequiredArgsRule(operation) ==
    [endpoint |-> operation.operation,
     required_query_args |-> operation.query_args,
     required_header_args |-> operation.header_args,
     match_score |-> 10 + 10 * Cardinality(DOMAIN operation.query_args)
                        + 10 * Len(operation.header_args)
                        - (IF operation.deprecated THEN 5 ELSE 0)]

\* matches without the loop over required_header_args
matches_IgnoringHeaders(rule, query_args, headers) ==
    \A key \in DOMAIN rule.required_query_args :
        /\ key \in DOMAIN query_args
        /\ \A k \in 1..Len(rule.required_query_args[key]) :
               \E n \in 1..Len(query_args[key]) :
                   query_args[key][n] = rule.required_query_args[key][k]

\* _RequiredArgsRule.matches
matches(rule, query_args, headers) ==
    /\ \A key \in DOMAIN rule.required_query_args :
           /\ key \in DOMAIN query_args
           /\ \A k \in 1..Len(rule.required_query_args[key]) :
                  \E n \in 1..Len(query_args[key]) :
                      query_args[key][n] = rule.required_query_args[key][k]
    /\ \A k \in 1..Len(rule.required_header_args) :
           rule.required_header_args[k] \in DOMAIN headers

\* the rules kept in the order of the operations, without sorting
SortedByScore_InGivenOrder(rules) == rules

\* sorted(rules, key=lambda rule: rule.match_score, reverse=True), which
\* keeps rules of equal score in their given order
SortedByScore(rules) ==
    LET rank(i) == Cardinality({k \in 1..Len(rules) :
                       \/ rules[k].match_score > rules[i].match_score
                       \/ (rules[k].match_score = rules[i].match_score /\ k < i)})
    IN [n \in 1..Len(rules) |-> rules[CHOOSE i \in 1..Len(rules) : rank(i) = n - 1]]

\* StrictMethodRule(string, methods, endpoint)
StrictMethodRule(string, methods, endpoint) ==
    [string |-> string, methods |-> methods, endpoint |-> endpoint]

\* _RequestMatchingRule.__init__
RequestMatchingRule(string, operations, method) ==
    [string |-> string, methods |-> {method},
     rules |-> SortedByScore([k \in 1..Len(operations) |-> RequiredArgsRule(operations[k])])]

\* _RequestMatchingRule.match_request
match_request(matching_rule, request) ==
    LET rules == matching_rule.rules
        matching == {k \in 1..Len(rules) : matches(rules[k], request.args, request.headers)}
    IN IF matching = {} THEN Raised("NotFound")
       ELSE rules[CHOOSE k \in matching : \A n \in matching : k <= n]

\* DataValueConstraint, HeaderValueConstraint
DataValueConstraint(name, value) == [on |-> "values", name |-> name, value |-> value]

HeaderValueConstraint(name, value) == [on |-> "headers", name |-> name, value |-> value]

\* ActionConstraint.accept: request.values.get(name) == value, or the same on headers
accept(constraint, request) ==
    LET source == IF constraint.on = "values" THEN request.values ELSE request.headers
    IN constraint.name \in DOMAIN source /\ source[constraint.name] = constraint.value

ActionCandidate(operation, constraints) ==
    [operation |-> operation, constraints |-> constraints]

ActionSelector(candidates) == [candidates |-> candidates]

\* ActionSelector.select_action
select_action(selector, request) ==
    LET accepted == {k \in 1..Len(selector.candidates) :
                        \A c \in 1..Len(selector.candidates[k].constraints) :
                            accept(selector.candidates[k].constraints[c], request)}
    IN IF accepted = {} THEN None
       ELSE selector.candidates[CHOOSE k \in accepted : \A n \in accepted : k <= n].operation

\* the rule _create_service_map adds for one (path, method) group of operations
GroupRule(service, protocol_name, ops) ==
    LET rule_string == RuleString(ops[1].path)
        method == ops[1].method
    IN IF protocol_name \in {"rest-json", "rest-xml"}
       THEN IF Len(ops) = 1
            THEN <<StrictMethodRule(rule_string, {method}, ops[1].operation)>>
            ELSE <<RequestMatchingRule(rule_string, ops, method)>>
       ELSE IF protocol_name \in {"query", "ec2"}
       THEN <<StrictMethodRule(rule_string, {"POST", "GET"},
                ActionSelector([k \in 1..Len(ops) |->
                    ActionCandidate(ops[k].operation,
                        <<DataValueConstraint("Action", ops[k].operation.name)>>)]))>>
       ELSE IF protocol_name = "json"
       THEN <<StrictMethodRule(rule_string, {method},
                ActionSelector([k \in 1..Len(ops) |->
                    ActionCandidate(ops[k].operation,
                        <<HeaderValueConstraint("X-Amz-Target",
                              service.metadata["targetPrefix"] \o "."
                                  \o ops[k].operation.name)>>)]))>>
       ELSE <<>>

RECURSIVE RulesUpTo(_, _, _, _)
\* the rules of the (path, method) groups that begin among the first n operations
RulesUpTo(service, protocol_name, http_ops, n) ==
    IF n = 0 THEN <<>>
    ELSE LET same(o) == o.path = http_ops[n].path /\ o.method = http_ops[n].method
             begins == \A k \in 1..(n - 1) : ~same(http_ops[k])
         IN RulesUpTo(service, protocol_name, http_ops, n - 1)
                \o (IF begins
                    THEN GroupRule(service, protocol_name, SelectSeq(http_ops, same))
                    ELSE <<>>)

\* _create_service_map, for a service that is neither s3 nor sqs: the rules of
\* the werkzeug Map of each supported protocol
create_service_map(service) ==
    LET ops == service.operations
        http_ops == [k \in 1..Len(ops) |-> from_operation(ops[k])]
        supported_protocols == Get(service.metadata, "protocols", {service.protocol})
    IN [protocol_name \in supported_protocols |->
           RulesUpTo(service, protocol_name, http_ops, Len(http_ops))]

\* the path arguments of a werkzeug rule string on a path, by rule variable
\* name, or None when the rule string does not match the path; the default
\* converter takes one non-empty element and the "path" converter the rest
RulePathArgs(string, path) ==
    LET n == Len(string)
        greedy == n > 0 /\ "var" \in DOMAIN string[n] /\ string[n].greedy
        fits(k) == IF "lit" \in DOMAIN string[k] THEN path[k] = string[k].lit
                   ELSE path[k] # ""
        variables == {k \in 1..n : "var" \in DOMAIN string[k]}
        value(nm) == LET k == CHOOSE v \in variables : string[v].var = nm
                     IN IF k = n /\ greedy THEN JoinSlash(SubSeq(path, n, Len(path)))
                        ELSE path[k]
    IN IF /\ (IF greedy THEN Len(path) >= n ELSE Len(path) = n)
          /\ \A k \in 1..(IF greedy THEN n - 1 ELSE n) : fits(k)
       THEN Dict([nm \in {string[k].var : k \in variables} |-> value(nm)])
       ELSE None

\* MapAdapter.match(path, method=method, return_rule=True) of werkzeug; in
\* a map without strict_slashes the empty path is matched by the rule "/"
MapMatch(rules, path_info, method) ==
    LET path == IF path_info = <<>> THEN <<"">> ELSE path_info
        on_path == {k \in 1..Len(rules) : RulePathArgs(rules[k].string, path) # None}
        allowed == {k \in on_path : method \in rules[k].methods}
    IN IF allowed # {}
       THEN LET k == CHOOSE a \in allowed : \A b \in allowed : a <= b
            IN [rule |-> rules[k], args |-> RulePathArgs(rules[k].string, path).v]
       ELSE IF on_path # {} THEN Raised("MethodNotAllowed")
       ELSE Raised("NotFound")

RECURSIVE RStripSlash(_)
\* path.rstrip("/")
RStripSlash(path) ==
    IF Len(path) > 0 /\ path[Len(path)] = ""
    THEN RStripSlash(SubSeq(path, 1, Len(path) - 1))
    ELSE path

\* determine_request_protocol(service_model, content_type): the protocol of
\* the service model, the only one a service without a "protocols" list supports
determine_request_protocol(service_model, content_type) == service_model.protocol

\* the part of ServiceOperationRouter.match that follows matcher.match
ResolveRule(found, request) ==
    LET rule == IF "rules" \in DOMAIN found.rule
                THEN match_request(found.rule, request)
                ELSE found.rule
    IN IF IsRaised(rule) THEN rule
       ELSE IF "candidates" \in DOMAIN rule.endpoint
       THEN LET operation == select_action(rule.endpoint, request)
            IN IF operation = None THEN Raised("NotFound")
               ELSE [operation |-> operation.name, args |-> found.args]
       ELSE [operation |-> rule.endpoint.name,
             args |-> [k \in {post_process_arg_name(a) : a \in DOMAIN found.args} |->
                          Unquote(found.args[CHOOSE a \in DOMAIN found.args :
                                                 post_process_arg_name(a) = k])]]

\* ServiceOperationRouter.match giving the matcher the path as it came
RouterMatch_PathAsItCame(map, service_model, request) ==
    LET protocol_map == map[determine_request_protocol(service_model, request.content_type)]
        method == IF request.method # "OPTIONS" THEN request.method ELSE "GET"
        found == MapMatch(protocol_map, request.path, method)
    IN IF IsRaised(found)
       THEN Raised("NotFound")
       ELSE ResolveRule(found, request)

\* ServiceOperationRouter.match without its `except MethodNotAllowed` clause
RouterMatch_MethodNotAllowedLeaves(map, service_model, request) ==
    LET protocol_map == map[determine_request_protocol(service_model, request.content_type)]
        method == IF request.method # "OPTIONS" THEN request.method ELSE "GET"
        path == IF request.path # <<"">> THEN RStripSlash(request.path) ELSE request.path
        found == MapMatch(protocol_map, path, method)
    IN IF IsRaised(found) THEN found ELSE ResolveRule(found, request)

\* ServiceOperationRouter.match on the router's _map and _service_model
RouterMatch(map, service_model, request) ==
    LET protocol_map == map[determine_request_protocol(service_model, request.content_type)]
        method == IF request.method # "OPTIONS" THEN request.method ELSE "GET"
        path == IF request.path # <<"">> THEN RStripSlash(request.path) ELSE request.path
        found == MapMatch(protocol_map, path, method)
    IN IF IsRaised(found)
       THEN Raised("NotFound")
       ELSE ResolveRule(found, request)

\* the input of an operation that requires the header X
TaggedInput ==
    RequiredStructure(<<HeaderMember("Tag", "X"), BodyMember("Name", "string")>>, <<"Tag">>)

\* the input of an operation that requires nothing
PlainInput == RequiredStructure(<<BodyMember("Name", "string")>>, <<>>)

NoQuery == [k \in {} |-> <<>>]

\* CreateTagged and Create share (POST, /resource); Import, ReplaceTagged and
\* ImportLegacy share (PUT, /resource) and all three require a marker
RoutedRestOperations ==
    << RoutedOperation(Operation("CreateTagged", "POST", <<Lit("resource")>>, TaggedInput),
                       NoQuery, FALSE),
       RoutedOperation(Operation("Create", "POST", <<Lit("resource")>>, PlainInput),
                       NoQuery, FALSE),
       RoutedOperation(Operation("ImportLegacy", "PUT", <<Lit("resource")>>, PlainInput),
                       ("mode" :> <<"import">>), TRUE),
       RoutedOperation(Operation("Import", "PUT", <<Lit("resource")>>, PlainInput),
                       ("mode" :> <<"import">>), FALSE),
       RoutedOperation(Operation("ReplaceTagged", "PUT", <<Lit("resource")>>, TaggedInput),
                       NoQuery, FALSE),
       RoutedOperation(Operation("GetResource", "GET",
                                 <<Lit("resource"), Var("Id", FALSE)>>, NoShape),
                       NoQuery, FALSE),
       RoutedOperation(Operation("DeleteBroker", "DELETE",
                                 <<Lit("brokers"), Var("broker-id", FALSE)>>, NoShape),
                       NoQuery, FALSE) >>

\* the operations of an action-based service, all on (POST, /)
RoutedActionOperations ==
    << RoutedOperation(Operation("TagWidgets", "POST", <<Lit("")>>, TagWidgetsInput),
                       NoQuery, FALSE),
       RoutedOperation(Operation("ListTags", "POST", <<Lit("")>>, NoShape),
                       NoQuery, FALSE) >>

ServiceModel(service_name, protocol_name, metadata, operations) ==
    [service_name |-> service_name, protocol |-> protocol_name, metadata |-> metadata,
     operations |-> operations]

\* one service model per protocol; the rest-xml service has no operation and
\* the last protocol is one _create_service_map adds no rule for
RoutedServices ==
    [p \in {"rest-json", "rest-xml", "query", "ec2", "json", "smithy-rpc-v2-cbor"} |->
        ServiceModel("widgets", p, ("targetPrefix" :> "Widgets"),
            CASE p = "rest-json" -> RoutedRestOperations
              [] p = "rest-xml" -> <<>>
              [] OTHER -> RoutedActionOperations)]

Request(method, path, headers, args, form) ==
    [method |-> method, path |-> path, headers |-> headers, args |-> args,
     values |-> [k \in DOMAIN args |-> args[k][1]] @@ form,
     content_type |-> "application/x-www-form-urlencoded"]

\* a key with a plain str, or with the list of one str, absent when value is UNDEFINED
Plain(key, value) == IF value = UNDEFINED THEN EmptyDict ELSE (key :> value.v)

Listed(key, value) == IF value = UNDEFINED THEN NoQuery ELSE (key :> <<value.v>>)

RoutedRequests ==
    { Request(method, path, Plain("X", x) @@ Plain("X-Amz-Target", target),
              Listed("mode", mode), Plain("Action", act)) :
        method \in {"GET", "POST", "PUT", "DELETE", "OPTIONS"},
        path \in { <<"resource">>, <<"resource", "">>, <<"resource", "a%20b">>,
                   <<"resource", "a%20b", "", "">>, <<"", "">>,
                   <<"brokers", "b-1">>, <<"">>, <<"other">> },
        x \in {UNDEFINED, Str("a"), Str("b")},
        target \in {UNDEFINED, Str("Widgets.TagWidgets"), Str("Widgets.Bogus")},
        mode \in {UNDEFINED, Str("import"), Str("other")},
        act \in {UNDEFINED, Str("TagWidgets"), Str("Bogus")} }

---------------------------------------------------------------------------
(* ServiceOperationRouter.match, on a router built once for the service *)

\* match is called with a request when no other call is running
RouterStart(w) ==
    /\ pc[w] = "idle"
    /\ \A o \in Workers \ {w} : pc[o] = "idle"
    /\ \E r \in RoutedRequests : req' = [req EXCEPT ![w] = r]
    /\ pc' = [pc EXCEPT ![w] = "match"]
    /\ UNCHANGED <<uri_match, action, idx, final_parsed, outcome, protocol>>
    /\ UNCHANGED <<resolverVars, backendVars>>

\* ServiceOperationRouter.match returns or raises
Route(w) ==
    /\ pc[w] = "match"
    /\ LET service_model == RoutedServices[protocol]
       IN outcome' = [outcome EXCEPT ![w] =
              RouterMatch(create_service_map(service_model), service_model, req[w])]
    /\ pc' = [pc EXCEPT ![w] = "done"]
    /\ UNCHANGED <<uri_match, req, action, idx, final_parsed, protocol>>
    /\ UNCHANGED <<resolverVars, backendVars>>

InitRouter ==
    /\ uri_match = Unset
    /\ pc = [w \in Workers |-> "idle"]
    /\ req = [w \in Workers |-> NoRequest]
    /\ action = [w \in Workers |-> ""]
    /\ idx = [w \in Workers |-> 0]
    /\ final_parsed = [w \in Workers |-> EmptyDict]
    /\ outcome = [w \in Workers |-> Pending]
    /\ protocol \in DOMAIN RoutedServices
    /\ NothingResolved
    /\ NoBackend

NextRouter ==
    \E w \in Workers :
        \/ RouterStart(w)
        \/ Route(w)
        \/ Return(w)

\* the routing of requests to operations
SpecRouter == InitRouter /\ [][NextRouter]_vars

---------------------------------------------------------------------------
(* The response encoders of moto/motocore/serialize.py.  An exception      *)
(* object is [t |-> "exception", class, code, message], code being         *)
(* UNDEFINED when the object has no `code` attribute; a response is the    *)
(* dict [status_code, headers, body].  The Date and Content-Length headers *)
(* of a response, which come from the clock and from the length of the     *)
(* encoded body, are left out.                                             *)

DEFAULT_RESPONSE_CODE == 200

DEFAULT_ERROR_RESPONSE_CODE == 400

\* the module-level dict SERIALIZERS: protocol name -> serializer class
SERIALIZERS ==
    [p \in {"query", "query-json", "json", "rest-json"} |->
        CASE p = "query" -> "QuerySerializer"
          [] p = "query-json" -> "QueryJSONSerializer"
          [] p = "json" -> "JSONSerializer"
          [] OTHER -> "RestJSONSerializer"]

\* create_serializer(protocol_name): an instance of the class, or KeyError
create_serializer(protocol_name) ==
    IF protocol_name \in DOMAIN SERIALIZERS
    THEN [class |-> SERIALIZERS[protocol_name]]
    ELSE Raised("KeyError")

Exception(class, code, message) ==
    [t |-> "exception", class |-> class, code |-> code, message |-> message]

\* Serializer._is_error_result
is_error_result(result) == result.t = "exception"

\* ServiceModel.shape_for(shape_name)
shape_for(service_model, shape_name) ==
    IF shape_name \in DOMAIN service_model.shapes
    THEN service_model.shapes[shape_name]
    ELSE Raised("NoShapeFoundError")

\* StructureShape.error_code of botocore
error_code(shape_name, shape) ==
    IF ~Get(shape.metadata, "exception", FALSE) THEN None
    ELSE IF "code" \in DOMAIN Get(shape.metadata, "error", EmptyDict)
    THEN Str(shape.metadata["error"]["code"])
    ELSE Str(shape_name)

\* DictSerializer._serialize_error
DictSerializeError(serialized, error, operation_model) ==
    LET shape_name == IF error.code # UNDEFINED THEN error.code.v ELSE error.class
        shape == shape_for(operation_model.service_model, shape_name)
        found == ~IsRaised(shape)
        code == IF found THEN error_code(shape_name, shape) ELSE Str(error.class)
        status_code == IF found
                       THEN Get(Get(shape.metadata, "error", EmptyDict), "httpStatusCode",
                                DEFAULT_ERROR_RESPONSE_CODE)
                       ELSE DEFAULT_ERROR_RESPONSE_CODE
        sender_fault == IF found
                        THEN Get(Get(shape.metadata, "error", EmptyDict), "senderFault", FALSE)
                        ELSE TRUE
        error_dict == ("Code" :> code) @@ ("Message" :> Str(error.message))
                          @@ (IF sender_fault THEN ("Type" :> Str("Sender")) ELSE EmptyDict)
    IN [serialized EXCEPT
           !.status_code = status_code,
           !.body = Dict(("Error" :> Dict(error_dict))
                         @@ ("RequestId" :> Str(serialized.headers["x-amzn-RequestId"])))]

\* QuerySerializer._serialize_error
QuerySerializeError(serialized, error, operation_model) ==
    LET base == DictSerializeError(serialized, error, operation_model)
    IN IF "xmlNamespace" \notin DOMAIN operation_model.metadata THEN Raised("KeyError")
       ELSE [base EXCEPT !.body =
                Dict("ErrorResponse" :>
                    Dict(("@xmlns" :> Str(operation_model.metadata["xmlNamespace"]))
                         @@ base.body.v))]

\* botocore.xform_name
xform_name(name) ==
    CASE name = "Name" -> "name" [] name = "Enabled" -> "enabled"
      [] name = "Tags" -> "tags" [] name = "Note" -> "note" [] OTHER -> name

\* DictSerializer._get_value, for a dict value whose class name is in no key
get_value(value, key) ==
    IF value.t # "dict" THEN None
    ELSE LET first == Get(value.v, xform_name(key), None)
         IN IF first # None THEN first ELSE Get(value.v, key, None)

\* str(value).lower()
StrLower(value) ==
    CASE value.t = "bool" -> Str(IF value.v THEN "true" ELSE "false")
      [] value.t = "str" -> Str(Lower(value.v))
      [] OTHER -> Str("none")

RECURSIVE DictSerialize(_, _, _)
\* DictSerializer._serialize for the structure, boolean, list and default handlers:
\* the value stored under the key, or for a structure the dict of its members
DictSerialize(serializer, value, shape) ==
    CASE shape.type_name = "structure" ->
             LET members == shape.members
                 written == {k \in 1..Len(members) :
                                get_value(value, members[k].mname) # None}
                 wire(k) == Get(members[k].shape.serialization, "name", members[k].mname)
             IN Dict([name \in {wire(k) : k \in written} |->
                        LET k == CHOOSE n \in written : wire(n) = name
                        IN DictSerialize(serializer, get_value(value, members[k].mname),
                                         members[k].shape)])
      [] shape.type_name = "boolean" ->
             IF serializer = "QueryJSONSerializer" THEN Bool(Truthy(value))
             ELSE StrLower(value)
      [] shape.type_name = "list" ->
             LET list_obj == [t |-> "list",
                              v |-> [i \in 1..Len(value.v) |->
                                        DictSerialize(serializer, value.v[i], shape.member)]]
             IN IF serializer \in {"QueryJSONSerializer", "JSONSerializer",
                                   "RestJSONSerializer"}
                THEN list_obj
                ELSE Dict(Get(shape.member.serialization, "name", "member") :> list_obj)
      [] OTHER -> value

\* the part of a serialize_to_response that writes value under the output
\* shape into `start`, inside its resultWrapper when the shape names one
SerializeOutput(serializer, start, value, output_shape) ==
    IF output_shape = NoShape THEN start
    ELSE LET members == IF value = None THEN EmptyDict
                        ELSE DictSerialize(serializer, value, output_shape).v
         IN IF "resultWrapper" \in DOMAIN output_shape.serialization
            THEN (output_shape.serialization["resultWrapper"] :> Dict(members)) @@ start
            ELSE members @@ start

RECURSIVE XmlNode(_, _)
\* the element xmltodict emits for one key of a dict: "@" keys become
\* attributes, the other keys child elements, a scalar the element's text
XmlNode(tag, value) ==
    IF value.t = "dict"
    THEN [tag |-> tag,
          attrs |-> IF "@xmlns" \in DOMAIN value.v
                    THEN ("xmlns" :> value.v["@xmlns"].v) ELSE EmptyDict,
          children |-> {XmlNode(k, value.v[k]) : k \in {c \in DOMAIN value.v : c # "@xmlns"}},
          text |-> ""]
    ELSE [tag |-> tag, attrs |-> EmptyDict, children |-> {}, text |-> value.v]

\* DictSerializer._encode_body and its overrides
encode_body(serializer, body) ==
    CASE serializer = "QuerySerializer" ->
             \* xmltodict.unparse(body, full_document=False)
             [syntax |-> "xml", nodes |-> {XmlNode(k, body.v[k]) : k \in DOMAIN body.v}]
      [] serializer = "QueryJSONSerializer" ->
             \* json.dumps(body).encode("utf-8")
             [syntax |-> "json", doc |-> body]
      [] OTHER -> body

\* DictSerializer.serialize_to_response, request_id being what
\* get_random_message_id() returns
DictSerializeToResponse(serializer, value, operation_model, request_id) ==
    LET content_type == CASE serializer = "QuerySerializer" -> "text/xml"
                          [] serializer = "QueryJSONSerializer" -> "application/json"
                          [] OTHER -> "text"
        default_response ==
            [status_code |-> DEFAULT_RESPONSE_CODE,
             headers |-> ("x-amzn-RequestId" :> request_id) @@ ("Content-Type" :> content_type),
             body |-> Str("")]
        root_key == operation_model.name \o "Response"
        metadata_ok == serializer # "QuerySerializer"
                           \/ "xmlNamespace" \in DOMAIN operation_model.metadata
        root == ("RequestId" :> Str(request_id))
                    @@ (IF serializer = "QuerySerializer"
                        THEN ("@xmlns" :> Str(operation_model.metadata["xmlNamespace"]))
                        ELSE EmptyDict)
        serialized ==
            IF is_error_result(value)
            THEN IF serializer = "QuerySerializer"
                 THEN QuerySerializeError(default_response, value, operation_model)
                 ELSE DictSerializeError(default_response, value, operation_model)
            ELSE IF ~metadata_ok THEN Raised("KeyError")
            ELSE [default_response EXCEPT
                     !.body = Dict(root_key :>
                                  Dict(SerializeOutput(serializer, root, value,
                                                       operation_model.output_shape))),
                     !.headers = ("vary" :> "accept-encoding") @@ @]
    IN IF IsRaised(serialized) THEN serialized
       ELSE [serialized EXCEPT !.body = encode_body(serializer, serialized.body)]

\* JSONSerializer.serialize_to_response for a value without a "result" key:
\* `"error" in value` raises TypeError on an exception object, and the
\* class defines no _serialize_exception
JSONSerializeToResponse(value, operation_model) ==
    IF value.t \notin {"dict", "list", "str"} THEN Raised("TypeError")
    ELSE IF value.t = "dict" /\ "error" \in DOMAIN value.v THEN Raised("AttributeError")
    ELSE [syntax |-> "json",
          doc |-> Dict(SerializeOutput("JSONSerializer", EmptyDict, value,
                                       operation_model.output_shape))]

\* serialize_to_response of the serializer class
SerializeToResponse(serializer, value, operation_model, request_id) ==
    IF serializer \in {"JSONSerializer", "RestJSONSerializer"}
    THEN JSONSerializeToResponse(value, operation_model)
    ELSE DictSerializeToResponse(serializer, value, operation_model, request_id)

---------------------------------------------------------------------------
(* RestXMLSerializer, the encoder of rest-xml documents.  It is not in     *)
(* SERIALIZERS.  A dict given to it is iterated in insertion order, which  *)
(* the record keeps in `keys`.                                             *)

OrderedDict(keys, f) == [t |-> "dict", v |-> f, keys |-> keys]

RECURSIVE Concat(_)
\* the child elements appended to one parent by successive calls
Concat(seqs) == IF seqs = <<>> THEN <<>> ELSE Head(seqs) \o Concat(Tail(seqs))

RECURSIVE RestXMLSerialize(_, _, _)
\* RestXMLSerializer._serialize_type_structure (shapes without the
\* xmlNamespace and xmlAttribute traits): the element appended to xmlnode
RestXMLSerializeStructure(shape, params, name) ==
    LET keys == params.keys
        members == shape.members
        known(key) == \E k \in 1..Len(members) : members[k].mname = key
        \* the iteration is left at shape.members[key] of an unknown key
        \* (KeyError) and at the first value that is None (return)
        stops == {i \in 1..Len(keys) : ~known(keys[i]) \/ params.v[keys[i]] = None}
        last == IF stops = {} THEN Len(keys)
                ELSE (CHOOSE i \in stops : \A j \in stops : i <= j) - 1
        member_shape(i) == members[MemberIndex(members, keys[i])].shape
        member_name(i) == Get(member_shape(i).serialization, "name", keys[i])
        written == [i \in 1..last |->
                       RestXMLSerialize(member_shape(i), params.v[keys[i]], member_name(i))]
        failed == {i \in 1..last : IsRaised(written[i])}
    IN IF failed # {} THEN written[CHOOSE i \in failed : \A j \in failed : i <= j]
       ELSE IF last < Len(keys) /\ ~known(keys[last + 1]) THEN Raised("KeyError")
       ELSE [nodes |-> << Elem(name, None, Concat([i \in 1..last |-> written[i].nodes])) >>]

\* RestXMLSerializer._serialize_type_boolean
RestXMLSerializeBoolean(shape, params, name) ==
    [nodes |-> << Elem(name, Str(IF Truthy(params) THEN "true" ELSE "false"), <<>>) >>]

\* RestXMLSerializer._serialize: the nodes appended to xmlnode by the
\* handler of the shape's type; _default_serialize writes six.text_type(params)
RestXMLSerialize(shape, params, name) ==
    CASE shape.type_name = "structure" -> RestXMLSerializeStructure(shape, params, name)
      [] shape.type_name = "boolean" -> RestXMLSerializeBoolean(shape, params, name)
      [] OTHER -> [nodes |-> << Elem(name, params, <<>>) >>]

\* ElementTree.tostring(real_root): the document, in which an element
\* whose text is empty is written as an empty element
ToXmlString(node) ==
    LET RECURSIVE written(_)
        written(n) == Elem(n.tag, IF n.text = Str("") THEN None ELSE n.text,
                           [i \in 1..Len(n.children) |-> written(n.children[i])])
    IN Body("xml", "<" \o node.tag \o ">", written(node))

\* RestXMLSerializer._serialize_body_params
serialize_body_params(params, shape) ==
    IF "name" \notin DOMAIN shape.serialization THEN Raised("KeyError")
    ELSE LET pseudo_root == RestXMLSerialize(shape, params, shape.serialization["name"])
         IN IF IsRaised(pseudo_root) THEN pseudo_root
            ELSE ToXmlString(pseudo_root.nodes[1])

\* BaseRestSerializer.serialize_to_request: its first statement,
\* self._create_default_request(), names an attribute that no class of the
\* module defines (Serializer has _create_default_response only)
serialize_to_request(parameters, operation_model) == Raised("AttributeError")

\* the service model the encoders are given: an error shape that declares a
\* code and a status, one that declares neither, and a shape that is no error
EncodedService ==
    [metadata |-> ("xmlNamespace" :> "http://widgets/doc/"),
     shapes |->
        ("WidgetNotFound" :>
            [type_name |-> "structure",
             metadata |-> ("exception" :> TRUE)
                 @@ ("error" :> (("code" :> "WidgetNotFoundFault")
                                     @@ ("httpStatusCode" :> 404)
                                     @@ ("senderFault" :> TRUE)))])
        @@ ("QuotaExceeded" :>
            [type_name |-> "structure", metadata |-> ("exception" :> TRUE)])]

WidgetOutput ==
    [type_name |-> "structure",
     serialization |-> ("resultWrapper" :> "DescribeWidgetResult"),
     members |-> << BodyMember("Name", "string"), BodyMember("Enabled", "boolean"),
                    Member("Note", ScalarShape("string", ("name" :> "Remark"))) >>]

EncodedOperation(name, output_shape) ==
    [name |-> name, output_shape |-> output_shape,
     metadata |-> EncodedService.metadata, service_model |-> EncodedService]

EncodedOperations ==
    { EncodedOperation("DescribeWidget", WidgetOutput),
      EncodedOperation("DeleteWidget", NoShape) }

\* the exceptions a backend raises
ErrorValues ==
    { Exception("WidgetNotFound", UNDEFINED, "no such widget"),
      Exception("ServiceError", Str("QuotaExceeded"), "too many widgets"),
      Exception("ValueError", UNDEFINED, "bad value") }

\* the results a backend returns
ResultValues ==
    { Dict(Field("name", n) @@ Field("Enabled", e) @@ Field("Note", note)) :
        n \in {UNDEFINED, None, Str("w1")},
        e \in {UNDEFINED, Bool(TRUE), Bool(FALSE)},
        note \in {UNDEFINED, Str("hi")} }

\* what a backend returns that is neither a result of the output shape nor
\* an exception: a str, and a dict without any of the shape's members
UnshapedValues == { Str("oops"), Dict("Colour" :> Str("red")) }

EncodedCalls ==
    { [value |-> v, operation_model |-> op] :
        v \in ErrorValues \cup ResultValues \cup UnshapedValues \cup {None},
        op \in EncodedOperations }

RequestIds == {"id-1", "id-2"}

---------------------------------------------------------------------------
(* create_serializer(protocol).serialize_to_response(value, operation_model) *)

\* a backend call has ended and its result or error is handed to the encoder
SerializeStart(w) ==
    /\ pc[w] = "idle"
    /\ \A o \in Workers \ {w} : pc[o] = "idle"
    /\ \E call \in EncodedCalls : req' = [req EXCEPT ![w] = call]
    /\ pc' = [pc EXCEPT ![w] = "serialize"]
    /\ UNCHANGED <<uri_match, action, idx, final_parsed, outcome, protocol>>
    /\ UNCHANGED <<resolverVars, backendVars>>

\* the shape of a rest-xml body: Name, a string; Enabled, a boolean; Note,
\* a string written as the element Remark
WidgetBody ==
    StructureShape(("name" :> "Widget"),
        << BodyMember("Name", "string"), BodyMember("Enabled", "boolean"),
           Member("Note", ScalarShape("string", ("name" :> "Remark"))) >>)

\* the params given for a body of WidgetBody: each member left out, None or
\* given, the keys in the order of the members
BodyParams ==
    { LET f == Field("Name", n) @@ Field("Enabled", e) @@ Field("Note", note)
      IN OrderedDict(SelectSeq(<<"Name", "Enabled", "Note">>, LAMBDA k : k \in DOMAIN f), f) :
        n \in {UNDEFINED, None, Str("w1")},
        e \in {UNDEFINED, None, Bool(TRUE), Bool(FALSE)},
        note \in {UNDEFINED, None, Str("hi")} }

\* the rest-xml encoder is given the params of a body
SerializeBodyStart(w) ==
    /\ pc[w] = "idle"
    /\ \A o \in Workers \ {w} : pc[o] = "idle"
    /\ protocol = "rest-xml"
    /\ \E params \in BodyParams :
           req' = [req EXCEPT ![w] = [params |-> params, shape |-> WidgetBody]]
    /\ pc' = [pc EXCEPT ![w] = "serialize_body"]
    /\ UNCHANGED <<uri_match, action, idx, final_parsed, outcome, protocol>>
    /\ UNCHANGED <<resolverVars, backendVars>>

\* RestXMLSerializer()._serialize_body_params(params, shape) returns the
\* document or raises
SerializeBody(w) ==
    /\ pc[w] = "serialize_body"
    /\ outcome' = [outcome EXCEPT ![w] = serialize_body_params(req[w].params, req[w].shape)]
    /\ pc' = [pc EXCEPT ![w] = "done"]
    /\ UNCHANGED <<uri_match, req, action, idx, final_parsed, protocol>>
    /\ UNCHANGED <<resolverVars, backendVars>>

\* the encoder returns the response or raises
Serialize(w) ==
    /\ pc[w] = "serialize"
    /\ LET serializer == create_serializer(protocol)
       IN IF IsRaised(serializer)
          THEN outcome' = [outcome EXCEPT ![w] = serializer]
          ELSE \E request_id \in RequestIds :
                   outcome' = [outcome EXCEPT ![w] =
                       SerializeToResponse(serializer.class, req[w].value,
                                           req[w].operation_model, request_id)]
    /\ pc' = [pc EXCEPT ![w] = "done"]
    /\ UNCHANGED <<uri_match, req, action, idx, final_parsed, protocol>>
    /\ UNCHANGED <<resolverVars, backendVars>>

InitEncoder ==
    /\ uri_match = Unset
    /\ pc = [w \in Workers |-> "idle"]
    /\ req = [w \in Workers |-> NoRequest]
    /\ action = [w \in Workers |-> ""]
    /\ idx = [w \in Workers |-> 0]
    /\ final_parsed = [w \in Workers |-> EmptyDict]
    /\ outcome = [w \in Workers |-> Pending]
    /\ protocol \in {"query", "query-json", "ec2", "json", "rest-json", "rest-xml"}
    /\ NothingResolved
    /\ NoBackend

NextEncoder ==
    \E w \in Workers :
        \/ SerializeStart(w)
        \/ Serialize(w)
        \/ SerializeBodyStart(w)
        \/ SerializeBody(w)
        \/ Return(w)

\* the encoding of results and errors into responses
SpecEncoder == InitEncoder /\ [][NextEncoder]_vars

---------------------------------------------------------------------------
(* A value is encoded by the protocol's encoder and the document is handed *)
(* to the protocol's decoder with the same shape.  The protocols are those *)
(* whose encoder writes the kind of document their decoder reads.          *)

\* {Name: string, Enabled: boolean, Tags: list of string}
WidgetDocument ==
    StructureShape(("name" :> "Widget"),
        << BodyMember("Name", "string"), BodyMember("Enabled", "boolean"),
           Member("Tags", ListShape(EmptyDict, StringShape)) >>)

ListOf(items) == [t |-> "list", v |-> items]

\* values of WidgetDocument, each member given or absent
DocumentValues ==
    { LET f == Field("Name", n) @@ Field("Enabled", e) @@ Field("Tags", tags)
      IN OrderedDict(SelectSeq(<<"Name", "Enabled", "Tags">>, LAMBDA k : k \in DOMAIN f), f) :
        n \in {UNDEFINED, Str("w1")},
        e \in {UNDEFINED, Bool(TRUE), Bool(FALSE)},
        tags \in {UNDEFINED, ListOf(<<>>), ListOf(<<Str("a")>>), ListOf(<<Str("a"), Str("b")>>)} }

RoundTripProtocols == {"json", "rest-json", "rest-xml"}

\* JSONParser._do_parse
JSONDoParse(request_dict, shape) ==
    IF shape = NoShape THEN Dict(EmptyDict)
    ELSE ParseShape("json", shape, ParseBodyAsJson(request_dict.body))

\* BaseRestParser._do_parse for a shape none of whose members has a
\* location: _parse_non_payload_attrs skips them all
RestDoParse(proto, request_dict, shape) ==
    LET final_parsed_ == ParsePayload(proto, request_dict, shape, EmptyDict)
    IN IF IsRaised(final_parsed_) THEN final_parsed_ ELSE Dict(final_parsed_)

\* a value is handed to the encoder
RoundTripStart(w) ==
    /\ pc[w] = "idle"
    /\ \A o \in Workers \ {w} : pc[o] = "idle"
    /\ \E v \in DocumentValues :
           req' = [req EXCEPT ![w] =
                      [value |-> v,
                       operation_model |-> EncodedOperation("PutWidget", WidgetDocument),
                       request |-> NoRequest]]
    /\ pc' = [pc EXCEPT ![w] = "encode"]
    /\ UNCHANGED <<uri_match, action, idx, final_parsed, outcome, protocol>>
    /\ UNCHANGED <<resolverVars, backendVars>>

\* the encoder writes the document or raises
Encode(w) ==
    /\ pc[w] = "encode"
    /\ LET serializer == create_serializer(protocol)
           encoded ==
               IF protocol = "rest-xml"
               THEN serialize_to_request(req[w].value, req[w].operation_model)
               ELSE IF IsRaised(serializer) THEN serializer
               ELSE SerializeToResponse(serializer.class, req[w].value,
                                        req[w].operation_model, "id-1")
       IN IF IsRaised(encoded)
          THEN Raise(w, encoded) /\ UNCHANGED req
          ELSE /\ req' = [req EXCEPT ![w].request =
                             RequestDict("POST", <<>>, EmptyDict, EmptyDict, encoded)]
               /\ pc' = [pc EXCEPT ![w] = "decode"]
               /\ UNCHANGED outcome
    /\ UNCHANGED <<uri_match, action, idx, final_parsed, protocol>>
    /\ UNCHANGED <<resolverVars, backendVars>>

\* the decoder reads the document with the shape it was written with
Decode(w) ==
    /\ pc[w] = "decode"
    /\ LET shape == req[w].operation_model.output_shape
       IN outcome' = [outcome EXCEPT ![w] =
              IF protocol = "json" THEN JSONDoParse(req[w].request, shape)
              ELSE RestDoParse(protocol, req[w].request, shape)]
    /\ pc' = [pc EXCEPT ![w] = "done"]
    /\ UNCHANGED <<uri_match, req, action, idx, final_parsed, protocol>>
    /\ UNCHANGED <<resolverVars, backendVars>>

InitRoundTrip ==
    /\ uri_match = Unset
    /\ pc = [w \in Workers |-> "idle"]
    /\ req = [w \in Workers |-> NoRequest]
    /\ action = [w \in Workers |-> ""]
    /\ idx = [w \in Workers |-> 0]
    /\ final_parsed = [w \in Workers |-> EmptyDict]
    /\ outcome = [w \in Workers |-> Pending]
    /\ protocol \in RoundTripProtocols
    /\ NothingResolved
    /\ NoBackend

NextRoundTrip ==
    \E w \in Workers :
        \/ RoundTripStart(w)
        \/ Encode(w)
        \/ Decode(w)
        \/ Return(w)

\* encoding a value and decoding the document again
SpecRoundTrip == InitRoundTrip /\ [][NextRoundTrip]_vars

---------------------------------------------------------------------------
(* The shape resolvers of moto/core/model.py and moto/motocore/model.py.   *)
(* Both extend botocore.model.ShapeResolver, which keeps the "shapes" of   *)
(* the service description and builds a new shape object on every call.    *)

\* the "shapes" of a service description: Node refers to itself
ShapeMap ==
    ("Node" :> (("type" :> "structure")
                @@ ("members" :> (("Next" :> ("shape" :> "Node"))
                                  @@ ("Label" :> (("shape" :> "Text")
                                                  @@ ("locationName" :> "label")))))
                @@ ("exception" :> "true")))
    @@ ("Text" :> (("type" :> "string") @@ ("max" :> "8") @@ ("default" :> "none")))
    @@ ("Count" :> (("type" :> "integer") @@ ("min" :> "0")))

MOTO_METADATA_ATTRS == <<"default", "default_result_key">>

\* SHAPE_CLASSES of the two resolvers: core/model.py replaces the four
\* classes, motocore/model.py inherits botocore's
SHAPE_CLASSES(module) ==
    [type_name \in {"structure", "list", "map", "string"} |->
        CASE type_name = "structure" -> module \o ".StructureShape"
          [] type_name = "list" -> module \o ".ListShape"
          [] type_name = "map" -> module \o ".MapShape"
          [] OTHER -> module \o ".StringShape"]

\* botocore's ShapeResolver.get_shape_by_name, which both classes call as
\* super(): a new object of the class of the shape's type, holding the
\* shape's model with the member traits laid over it
botocore_get_shape_by_name(classes, shape_name, member_traits) ==
    IF shape_name \notin DOMAIN ShapeMap THEN Raised("NoShapeFoundError")
    ELSE LET shape_model == ShapeMap[shape_name]
         IN [class |-> Get(classes, shape_model["type"], "botocore.Shape"),
             shape_name |-> shape_name,
             shape_model |-> IF DOMAIN member_traits # {}
                             THEN member_traits @@ shape_model ELSE shape_model,
             own_attrs |-> FALSE,
             attrs |-> <<>>]

\* ShapeResolver.get_shape_by_name of moto/core/model.py
core_get_shape_by_name(shape_name, member_traits) ==
    LET result == botocore_get_shape_by_name(SHAPE_CLASSES("core"), shape_name, member_traits)
    IN IF IsRaised(result) THEN result
       ELSE IF result.class \notin {SHAPE_CLASSES("core")[c] : c \in DOMAIN SHAPE_CLASSES("core")}
       THEN [result EXCEPT !.class = "core.Shape"]
       ELSE result

\* list(set(a) | set(b)): the entries of both lists, each once
ListOfUnion(a, b) == a \o SelectSeq(b, LAMBDA x : \A i \in 1..Len(a) : a[i] # x)

\* the resolver patching the attribute of the class in place
\* (result.METADATA_ATTRS += MOTO_METADATA_ATTRS)
motocore_get_shape_by_name_PatchingTheClass(class_attrs, shape_name, member_traits) ==
    LET result == botocore_get_shape_by_name(SHAPE_CLASSES("botocore"), shape_name,
                                            member_traits)
    IN [result |-> result,
        METADATA_ATTRS |-> IF IsRaised(result) THEN class_attrs
                           ELSE class_attrs \o MOTO_METADATA_ATTRS]

\* ShapeResolver.get_shape_by_name of moto/motocore/model.py: the result and
\* the class attribute afterwards.  The assignment makes an attribute of the
\* returned object and leaves the attribute of the class as it is.
motocore_get_shape_by_name(class_attrs, shape_name, member_traits) ==
    LET result == botocore_get_shape_by_name(SHAPE_CLASSES("botocore"), shape_name,
                                            member_traits)
    IN [result |-> IF IsRaised(result) THEN result
                   ELSE [result EXCEPT !.own_attrs = TRUE,
                                       !.attrs = ListOfUnion(class_attrs, MOTO_METADATA_ATTRS)],
        METADATA_ATTRS |-> class_attrs]

\* get_shape_by_name of the resolver of one of the two modules
get_shape_by_name(module, class_attrs, shape_name, member_traits) ==
    IF module = "core"
    THEN [result |-> core_get_shape_by_name(shape_name, member_traits),
          METADATA_ATTRS |-> class_attrs]
    ELSE motocore_get_shape_by_name(class_attrs, shape_name, member_traits)

\* botocore's ShapeResolver.resolve_shape_ref: the call made for a member
resolve_shape_ref(shape_ref) ==
    [shape_name |-> shape_ref["shape"],
     member_traits |-> [k \in DOMAIN shape_ref \ {"shape"} |-> shape_ref[k]]]

\* Shape.metadata: the entries of the shape's model that METADATA_ATTRS names
ShapeMetadata(shape, class_attrs) ==
    LET names == IF shape.own_attrs THEN shape.attrs ELSE class_attrs
        kept == {names[i] : i \in 1..Len(names)} \cap DOMAIN shape.shape_model
    IN [k \in kept |-> shape.shape_model[k]]

MaxShapes == 3

ResolverModules == {"core", "motocore"}

ResolverCalls ==
    { [module |-> m, shape_name |-> n, member_traits |-> traits] :
        m \in ResolverModules,
        n \in DOMAIN ShapeMap \cup {"Missing"},
        traits \in {EmptyDict, ("locationName" :> "label")} }

\* one call of get_shape_by_name; what it returns is kept by the caller
Resolve(w) ==
    /\ pc[w] = "idle"
    /\ \A o \in Workers \ {w} : pc[o] = "idle"
    /\ Len(resolved) < MaxShapes
    /\ \E call \in ResolverCalls :
          LET got == get_shape_by_name(call.module, METADATA_ATTRS, call.shape_name,
                                       call.member_traits)
          IN /\ req' = [req EXCEPT ![w] = call]
             /\ METADATA_ATTRS' = got.METADATA_ATTRS
             /\ IF IsRaised(got.result)
                THEN /\ outcome' = [outcome EXCEPT ![w] = got.result]
                     /\ UNCHANGED resolved
                ELSE /\ outcome' = [outcome EXCEPT ![w] = [returned |-> Len(resolved) + 1]]
                     /\ resolved' = Append(resolved, [call |-> call, shape |-> got.result])
    /\ pc' = [pc EXCEPT ![w] = "done"]
    /\ UNCHANGED <<uri_match, action, idx, final_parsed, protocol>>
    /\ UNCHANGED backendVars

\* StructureShape.members is read on a structure returned before: one call
\* of get_shape_by_name per member reference, for the member Next
ResolveMember(w) ==
    /\ pc[w] = "idle"
    /\ \A o \in Workers \ {w} : pc[o] = "idle"
    /\ Len(resolved) < MaxShapes
    /\ \E i \in 1..Len(resolved) :
          /\ resolved[i].shape.shape_model["type"] = "structure"
          /\ \E member \in DOMAIN resolved[i].shape.shape_model["members"] :
                LET ref == resolve_shape_ref(resolved[i].shape.shape_model["members"][member])
                    call == [module |-> resolved[i].call.module,
                             shape_name |-> ref.shape_name,
                             member_traits |-> ref.member_traits]
                    got == get_shape_by_name(call.module, METADATA_ATTRS, call.shape_name,
                                             call.member_traits)
                IN /\ req' = [req EXCEPT ![w] = call]
                   /\ METADATA_ATTRS' = got.METADATA_ATTRS
                   /\ outcome' = [outcome EXCEPT ![w] = [returned |-> Len(resolved) + 1]]
                   /\ resolved' = Append(resolved, [call |-> call, shape |-> got.result])
    /\ pc' = [pc EXCEPT ![w] = "done"]
    /\ UNCHANGED <<uri_match, action, idx, final_parsed, protocol>>
    /\ UNCHANGED backendVars

InitResolver ==
    /\ uri_match = Unset
    /\ pc = [w \in Workers |-> "idle"]
    /\ req = [w \in Workers |-> NoRequest]
    /\ action = [w \in Workers |-> ""]
    /\ idx = [w \in Workers |-> 0]
    /\ final_parsed = [w \in Workers |-> EmptyDict]
    /\ outcome = [w \in Workers |-> Pending]
    /\ protocol = "query"
    /\ NothingResolved
    /\ NoBackend

NextResolver ==
    \E w \in Workers :
        \/ Resolve(w)
        \/ ResolveMember(w)
        \/ Return(w)

\* the resolution of shape names by the two resolvers
SpecResolver == InitResolver /\ [][NextResolver]_vars

---------------------------------------------------------------------------
(* The snapshot stores of moto/rds3/models.  A store is an OrderedDict,     *)
(* here the sequence of its values in insertion order; a snapshot is        *)
(* [id, snapshot_type, source, attribute_values], source being the          *)
(* identifier of the instance or cluster it was taken from and              *)
(* attribute_values the values of its "restore" attribute.                  *)

\* the keys of a store
StoredIds(store) == {store[i].id : i \in 1..Len(store)}

\* store[identifier]
Stored(store, identifier) == store[CHOOSE i \in 1..Len(store) : store[i].id = identifier]

\* store[snapshot.id] = snapshot: a new key is put last, a key that is
\* there keeps its place
StoreItem(store, snapshot) ==
    IF snapshot.id \in StoredIds(store)
    THEN [i \in 1..Len(store) |-> IF store[i].id = snapshot.id THEN snapshot ELSE store[i]]
    ELSE Append(store, snapshot)

\* store.pop(identifier)
PopItem(store, identifier) == SelectSeq(store, LAMBDA snapshot : snapshot.id # identifier)

\* int(os.environ.get("MOTO_RDS_SNAPSHOT_LIMIT", "100"))
SnapshotLimit(env) == IntOf(Get(env, "MOTO_RDS_SNAPSHOT_LIMIT", "100")).v

\* the instances and the clusters of the backend
DBInstances == {"db-1"}

DBClusters == {"cluster-1"}

\* the identifiers _is_identifier_valid accepts among those of the model:
\* the first character of "9x" is not a letter
ValidIdentifiers == {"s1", "s2", "s3"}

\* DBSnapshot.__init__
DBSnapshot(identifier, db_instance, snapshot_type) ==
    IF snapshot_type = "manual" /\ identifier \notin ValidIdentifiers
    THEN Raised("InvalidDBSnapshotIdentifierValue")
    ELSE [id |-> identifier, snapshot_type |-> snapshot_type, source |-> db_instance,
          attribute_values |-> <<>>]

\* DBClusterSnapshot.__init__
DBClusterSnapshot(identifier, db_cluster, snapshot_type) ==
    [id |-> identifier, snapshot_type |-> snapshot_type, source |-> db_cluster,
     attribute_values |-> <<>>]

\* what a backend method leaves: the store, and what it returned or raised
Left(store, result) == [store |-> store, result |-> result]

\* DBSnapshotBackend.copy_db_snapshot, without a kms_key_id
copy_db_snapshot(store, env, source_db_snapshot_identifier, target_db_snapshot_identifier) ==
    IF target_db_snapshot_identifier \in StoredIds(store)
    THEN Left(store, Raised("DBSnapshotAlreadyExists"))
    ELSE IF Len(store) >= SnapshotLimit(env)
    THEN Left(store, Raised("SnapshotQuotaExceeded"))
    ELSE IF source_db_snapshot_identifier \notin StoredIds(store)
    THEN Left(store, Raised("DBSnapshotNotFound"))
    ELSE LET source_snapshot == Stored(store, source_db_snapshot_identifier)
             target_snapshot == DBSnapshot(target_db_snapshot_identifier,
                                           source_snapshot.source, "manual")
         IN IF IsRaised(target_snapshot) THEN Left(store, target_snapshot)
            ELSE Left(StoreItem(store, target_snapshot), target_snapshot)

\* DBSnapshotBackend.create_db_snapshot
create_db_snapshot(store, env, db_instance_identifier, db_snapshot_identifier, snapshot_type) ==
    IF db_snapshot_identifier \in StoredIds(store)
    THEN Left(store, Raised("DBSnapshotAlreadyExists"))
    ELSE IF Len(store) >= SnapshotLimit(env)
    THEN Left(store, Raised("SnapshotQuotaExceeded"))
    ELSE IF db_instance_identifier \notin DBInstances
    THEN Left(store, Raised("DBInstanceNotFound"))
    ELSE LET snapshot == DBSnapshot(db_snapshot_identifier, db_instance_identifier,
                                    snapshot_type)
         IN IF IsRaised(snapshot) THEN Left(store, snapshot)
            ELSE Left(StoreItem(store, snapshot), snapshot)

\* DBSnapshotBackend.delete_db_snapshot
delete_db_snapshot(store, db_snapshot_identifier) ==
    IF db_snapshot_identifier \notin StoredIds(store)
    THEN Left(store, Raised("DBSnapshotNotFound"))
    ELSE Left(PopItem(store, db_snapshot_identifier), Stored(store, db_snapshot_identifier))

\* DBClusterSnapshotBackend.create_db_cluster_snapshot
create_db_cluster_snapshot(store, env, db_cluster_identifier, db_cluster_snapshot_identifier, snapshot_type) ==
    IF db_cluster_snapshot_identifier \in StoredIds(store)
    THEN Left(store, Raised("DBClusterSnapshotAlreadyExists"))
    ELSE IF db_cluster_identifier \notin DBClusters
    THEN Left(store, Raised("DBClusterNotFound"))
    ELSE LET snapshot == DBClusterSnapshot(db_cluster_snapshot_identifier,
                                           db_cluster_identifier, snapshot_type)
         IN Left(StoreItem(store, snapshot), snapshot)

\* copy_db_cluster_snapshot without the test of the number of snapshots
copy_db_cluster_snapshot_Unlimited(store, env, source_db_cluster_snapshot_identifier, target_db_cluster_snapshot_identifier) ==
    IF source_db_cluster_snapshot_identifier \notin StoredIds(store)
    THEN Left(store, Raised("DBClusterSnapshotNotFound"))
    ELSE IF target_db_cluster_snapshot_identifier \in StoredIds(store)
    THEN Left(store, Raised("DBClusterSnapshotAlreadyExists"))
    ELSE LET target_db_cluster_snapshot ==
                 DBClusterSnapshot(target_db_cluster_snapshot_identifier,
                     Stored(store, source_db_cluster_snapshot_identifier).source, "manual")
         IN Left(StoreItem(store, target_db_cluster_snapshot), target_db_cluster_snapshot)

\* DBClusterSnapshotBackend.copy_db_cluster_snapshot, without a kms_key_id
copy_db_cluster_snapshot(store, env, source_db_cluster_snapshot_identifier, target_db_cluster_snapshot_identifier) ==
    IF source_db_cluster_snapshot_identifier \notin StoredIds(store)
    THEN Left(store, Raised("DBClusterSnapshotNotFound"))
    ELSE IF target_db_cluster_snapshot_identifier \in StoredIds(store)
    THEN Left(store, Raised("DBClusterSnapshotAlreadyExists"))
    ELSE IF Len(store) >= SnapshotLimit(env)
    THEN Left(store, Raised("SnapshotQuotaExceeded"))
    ELSE LET source_db_cluster_snapshot == Stored(store, source_db_cluster_snapshot_identifier)
             target_db_cluster_snapshot ==
                 DBClusterSnapshot(target_db_cluster_snapshot_identifier,
                                   source_db_cluster_snapshot.source, "manual")
         IN Left(StoreItem(store, target_db_cluster_snapshot), target_db_cluster_snapshot)

\* DBClusterSnapshotBackend.delete_db_cluster_snapshot
delete_db_cluster_snapshot(store, db_cluster_snapshot_identifier) ==
    IF db_cluster_snapshot_identifier \notin StoredIds(store)
    THEN Left(store, Raised("DBClusterSnapshotNotFound"))
    ELSE Left(PopItem(store, db_cluster_snapshot_identifier),
              Stored(store, db_cluster_snapshot_identifier))

\* the largest MOTO_RDS_SNAPSHOT_LIMIT the environment of the model sets
MaxSnapshotLimit == 2

SnapshotIdentifiers == ValidIdentifiers \cup {"9x"}

\* a call of a backend method by worker w, which runs when no other call
\* does: the call and what it returned or raised are kept until Return
Called(w, call, result) ==
    /\ pc[w] = "idle"
    /\ \A o \in Workers \ {w} : pc[o] = "idle"
    /\ req' = [req EXCEPT ![w] = call]
    /\ outcome' = [outcome EXCEPT ![w] = result]
    /\ pc' = [pc EXCEPT ![w] = "done"]
    /\ UNCHANGED <<uri_match, action, idx, final_parsed, protocol>>
    /\ UNCHANGED resolverVars

CreateDBSnapshot(w) ==
    \E instance \in DBInstances \cup {"db-9"}, identifier \in SnapshotIdentifiers :
        LET left == create_db_snapshot(db_snapshots, environ, instance, identifier, "manual")
        IN /\ Called(w, [method |-> "create_db_snapshot", identifier |-> identifier],
                     left.result)
           /\ db_snapshots' = left.store
           /\ UNCHANGED <<environ, db_cluster_snapshots, pages, addresses, distributions>>

CopyDBSnapshot(w) ==
    \E source \in ValidIdentifiers, target \in SnapshotIdentifiers :
        LET left == copy_db_snapshot(db_snapshots, environ, source, target)
        IN /\ Called(w, [method |-> "copy_db_snapshot", source |-> source,
                         identifier |-> target], left.result)
           /\ db_snapshots' = left.store
           /\ UNCHANGED <<environ, db_cluster_snapshots, pages, addresses, distributions>>

DeleteDBSnapshot(w) ==
    \E identifier \in ValidIdentifiers :
        LET left == delete_db_snapshot(db_snapshots, identifier)
        IN /\ Called(w, [method |-> "delete_db_snapshot", identifier |-> identifier],
                     left.result)
           /\ db_snapshots' = left.store
           /\ UNCHANGED <<environ, db_cluster_snapshots, pages, addresses, distributions>>

CreateDBClusterSnapshot(w) ==
    \E cluster \in DBClusters \cup {"cluster-9"}, identifier \in ValidIdentifiers :
        LET left == create_db_cluster_snapshot(db_cluster_snapshots, environ, cluster,
                                               identifier, "manual")
        IN /\ Called(w, [method |-> "create_db_cluster_snapshot", identifier |-> identifier],
                     left.result)
           /\ db_cluster_snapshots' = left.store
           /\ UNCHANGED <<environ, db_snapshots, pages, addresses, distributions>>

CopyDBClusterSnapshot(w) ==
    \E source \in ValidIdentifiers, target \in ValidIdentifiers :
        LET left == copy_db_cluster_snapshot(db_cluster_snapshots, environ, source, target)
        IN /\ Called(w, [method |-> "copy_db_cluster_snapshot", source |-> source,
                         identifier |-> target], left.result)
           /\ db_cluster_snapshots' = left.store
           /\ UNCHANGED <<environ, db_snapshots, pages, addresses, distributions>>

DeleteDBClusterSnapshot(w) ==
    \E identifier \in ValidIdentifiers :
        LET left == delete_db_cluster_snapshot(db_cluster_snapshots, identifier)
        IN /\ Called(w, [method |-> "delete_db_cluster_snapshot", identifier |-> identifier],
                     left.result)
           /\ db_cluster_snapshots' = left.store
           /\ UNCHANGED <<environ, db_snapshots, pages, addresses, distributions>>

\* the variables the backends do not use, as they are at the start
NoParser ==
    /\ uri_match = Unset
    /\ pc = [w \in Workers |-> "idle"]
    /\ req = [w \in Workers |-> NoRequest]
    /\ action = [w \in Workers |-> ""]
    /\ idx = [w \in Workers |-> 0]
    /\ final_parsed = [w \in Workers |-> EmptyDict]
    /\ outcome = [w \in Workers |-> Pending]
    /\ protocol = "query"
    /\ NothingResolved

\* both stores empty, and a snapshot limit set in the environment
InitSnapshots ==
    /\ NoParser
    /\ \E limit \in 1..MaxSnapshotLimit :
           environ = ("MOTO_RDS_SNAPSHOT_LIMIT" :> ToString(limit))
    /\ db_snapshots = <<>>
    /\ db_cluster_snapshots = <<>>
    /\ pages = <<>>
    /\ addresses = <<>>
    /\ distributions = <<>>

NextSnapshots ==
    \E w \in Workers :
        \/ CreateDBSnapshot(w)
        \/ CopyDBSnapshot(w)
        \/ DeleteDBSnapshot(w)
        \/ CreateDBClusterSnapshot(w)
        \/ CopyDBClusterSnapshot(w)
        \/ DeleteDBClusterSnapshot(w)
        \/ Return(w)

\* create, copy and delete on the two snapshot stores
SpecSnapshots == InitSnapshots /\ [][NextSnapshots]_vars

---------------------------------------------------------------------------
(* The "restore" attribute of a snapshot: the account ids it is shared with *)

\* the second argument of os.getenv("MAX_SHARED_ACCOUNTS", 20)
MAX_SHARED_ACCOUNTS == 20

\* os.getenv(name, default): the str the environment holds, or the default
getenv(env, name, default) == IF name \in DOMAIN env THEN Str(env[name]) ELSE default

\* DBSnapshotAttribute.build_from_values: the attribute it returns,
\* values_to_add and values_to_remove being lists (None is the empty list).  The comparison of an int with the str that
\* os.getenv returns for a variable that is set raises TypeError.
DBSnapshotAttribute_build_from_values(env, attribute_name, attribute_values, values_to_add, values_to_remove) ==
    LET InRemove(value) == \E i \in 1..Len(values_to_remove) : values_to_remove[i] = value
        common_values == {values_to_add[i] : i \in 1..Len(values_to_add)}
                             \cap {values_to_remove[i] : i \in 1..Len(values_to_remove)}
        add == attribute_values \o values_to_add
        kept == SelectSeq(add, LAMBDA value : ~InRemove(value))
        limit == getenv(env, "MAX_SHARED_ACCOUNTS", [t |-> "int", v |-> MAX_SHARED_ACCOUNTS])
    IN IF attribute_name # "restore" THEN Raised("InvalidParameterValue")
       ELSE IF common_values # {} THEN Raised("InvalidParameterCombination")
       ELSE IF limit.t # "int" THEN Raised("TypeError")
       ELSE IF Len(kept) > limit.v THEN Raised("SharedSnapshotQuotaExceeded")
       ELSE [attribute_name |-> attribute_name, attribute_values |-> kept]

\* DBClusterSnapshotAttribute.build_from_values
DBClusterSnapshotAttribute_build_from_values(env, attribute_name, attribute_values, values_to_add, values_to_remove) ==
    LET InRemove(value) == \E i \in 1..Len(values_to_remove) : values_to_remove[i] = value
        common_values == {values_to_add[i] : i \in 1..Len(values_to_add)}
                             \cap {values_to_remove[i] : i \in 1..Len(values_to_remove)}
        add == attribute_values \o values_to_add
        kept == SelectSeq(add, LAMBDA value : ~InRemove(value))
        limit == getenv(env, "MAX_SHARED_ACCOUNTS", [t |-> "int", v |-> MAX_SHARED_ACCOUNTS])
    IN IF attribute_name # "restore" THEN Raised("InvalidParameterValue")
       ELSE IF common_values # {} THEN Raised("InvalidParameterCombination")
       ELSE IF limit.t # "int" THEN Raised("TypeError")
       ELSE IF Len(kept) > limit.v THEN Raised("SharedSnapshotQuotaExceeded")
       ELSE [attribute_name |-> attribute_name, attribute_values |-> kept]

\* DBSnapshotBackend.modify_db_snapshot_attribute
modify_db_snapshot_attribute(store, env, db_snapshot_identifier, attribute_name, values_to_add, values_to_remove) ==
    IF db_snapshot_identifier \notin StoredIds(store)
    THEN Left(store, Raised("DBSnapshotNotFound"))
    ELSE LET snapshot == Stored(store, db_snapshot_identifier)
             updated == DBSnapshotAttribute_build_from_values(env, attribute_name,
                            snapshot.attribute_values, values_to_add, values_to_remove)
         IN IF snapshot.snapshot_type # "manual"
            THEN Left(store, Raised("InvalidDBSnapshotIdentifierValue"))
            ELSE IF IsRaised(updated) THEN Left(store, updated)
            ELSE Left(StoreItem(store, [snapshot EXCEPT !.attribute_values = updated.attribute_values]),
                      updated)

\* DBClusterSnapshotBackend.modify_db_cluster_snapshot_attribute
modify_db_cluster_snapshot_attribute(store, env, db_cluster_snapshot_identifier, attribute_name, values_to_add, values_to_remove) ==
    IF db_cluster_snapshot_identifier \notin StoredIds(store)
    THEN Left(store, Raised("DBClusterSnapshotNotFound"))
    ELSE LET cluster_snapshot == Stored(store, db_cluster_snapshot_identifier)
             updated == DBClusterSnapshotAttribute_build_from_values(env, attribute_name,
                            cluster_snapshot.attribute_values, values_to_add, values_to_remove)
         IN IF cluster_snapshot.snapshot_type # "manual"
            THEN Left(store, Raised("InvalidDBClusterSnapshotStateFault"))
            ELSE IF IsRaised(updated) THEN Left(store, updated)
            ELSE Left(StoreItem(store, [cluster_snapshot EXCEPT !.attribute_values = updated.attribute_values]),
                      updated)

\* [str(x) for x in range(n)]
Accounts(n) == [i \in 1..n |-> ToString(i - 1)]

\* the lists of account ids a call gives; None is the empty list
ValuesToAdd == { <<>>, Accounts(10), Accounts(21) }

ValuesToRemove == { <<>>, <<"0">> }

ModifyDBSnapshotAttribute(w) ==
    \E identifier \in ValidIdentifiers, name \in {"restore", "bogus"},
       values_to_add \in ValuesToAdd, values_to_remove \in ValuesToRemove :
        LET left == modify_db_snapshot_attribute(db_snapshots, environ, identifier, name,
                                                 values_to_add, values_to_remove)
        IN /\ Called(w, [method |-> "modify_db_snapshot_attribute",
                         identifier |-> identifier, attribute_name |-> name,
                         values_to_add |-> values_to_add,
                         values_to_remove |-> values_to_remove], left.result)
           /\ db_snapshots' = left.store
           /\ UNCHANGED <<environ, db_cluster_snapshots, pages, addresses, distributions>>

ModifyDBClusterSnapshotAttribute(w) ==
    \E identifier \in ValidIdentifiers, name \in {"restore", "bogus"},
       values_to_add \in ValuesToAdd, values_to_remove \in ValuesToRemove :
        LET left == modify_db_cluster_snapshot_attribute(db_cluster_snapshots, environ,
                        identifier, name, values_to_add, values_to_remove)
        IN /\ Called(w, [method |-> "modify_db_cluster_snapshot_attribute",
                         identifier |-> identifier, attribute_name |-> name,
                         values_to_add |-> values_to_add,
                         values_to_remove |-> values_to_remove], left.result)
           /\ db_cluster_snapshots' = left.store
           /\ UNCHANGED <<environ, db_snapshots, pages, addresses, distributions>>

\* each store with a manual and an automated snapshot, shared with nobody;
\* MAX_SHARED_ACCOUNTS is set in the environment or is not
InitAttributes ==
    /\ NoParser
    /\ environ \in { [name \in {} |-> ""], ("MAX_SHARED_ACCOUNTS" :> "20") }
    /\ db_snapshots = << DBSnapshot("s1", "db-1", "manual"),
                         DBSnapshot("s2", "db-1", "automated") >>
    /\ db_cluster_snapshots = << DBClusterSnapshot("s1", "cluster-1", "manual"),
                                 DBClusterSnapshot("s2", "cluster-1", "automated") >>
    /\ pages = <<>>
    /\ addresses = <<>>
    /\ distributions = <<>>

NextAttributes ==
    \E w \in Workers :
        \/ ModifyDBSnapshotAttribute(w)
        \/ ModifyDBClusterSnapshotAttribute(w)
        \/ Return(w)

\* the sharing of snapshots with other accounts
SpecAttributes == InitAttributes /\ [][NextAttributes]_vars

---------------------------------------------------------------------------
(* Paginated describe calls (moto/rds3/responses.py) *)

MAX_RECORDS == 100

\* [resource.resource_id for resource in all_resources]
ResourceIds(resources) == [i \in 1..Len(resources) |-> resources[i].id]

\* all_ids.index(marker)
IndexOf(all_ids, marker) ==
    CHOOSE i \in 1..Len(all_ids) :
        all_ids[i] = marker /\ \A j \in 1..(i - 1) : all_ids[j] # marker

\* resources[start : start + page_size], start counted from 0
Slice(resources, start, page_size) ==
    SubSeq(resources, start + 1,
           IF start + page_size < Len(resources) THEN start + page_size ELSE Len(resources))

\* RDSResponse._paginate_response with a marker returned one page too long
_paginate_response_MarkerAtEnd(parameters, resources) ==
    LET marker == Get(parameters, "marker", "")
        page_size == Get(parameters, "max_records", MAX_RECORDS)
        all_ids == ResourceIds(resources)
    IN IF page_size < 20 \/ page_size > 100 THEN Raised("InvalidParameterValue")
       ELSE IF marker # "" /\ \A i \in 1..Len(all_ids) : all_ids[i] # marker
       THEN Raised("ValueError")
       ELSE LET start == IF marker # "" THEN IndexOf(all_ids, marker) ELSE 0
                paginated_resources == Slice(resources, start, page_size)
            IN [resources |-> paginated_resources,
                marker |-> IF Len(resources) >= start + page_size /\ paginated_resources # <<>>
                           THEN paginated_resources[Len(paginated_resources)].id
                           ELSE ""]

\* RDSResponse._paginate_response: the parameters are the dict of the call's
\* parameters; a marker of "" stands for None (both are false in `if marker`)
_paginate_response(parameters, resources) ==
    LET marker == Get(parameters, "marker", "")
        page_size == Get(parameters, "max_records", MAX_RECORDS)
        all_ids == ResourceIds(resources)
    IN IF page_size < 20 \/ page_size > 100 THEN Raised("InvalidParameterValue")
       ELSE IF marker # "" /\ \A i \in 1..Len(all_ids) : all_ids[i] # marker
       THEN Raised("ValueError")
       ELSE LET start == IF marker # "" THEN IndexOf(all_ids, marker) ELSE 0
                paginated_resources == Slice(resources, start, page_size)
            IN [resources |-> paginated_resources,
                marker |-> IF Len(resources) > start + page_size
                           THEN paginated_resources[Len(paginated_resources)].id
                           ELSE ""]

\* DBSnapshotBackend.describe_db_snapshots, called without a filter
describe_db_snapshots(store) == store

\* DBClusterSnapshotBackend.describe_db_cluster_snapshots, called without a filter
describe_db_cluster_snapshots(store) == store

\* the most snapshots a store holds when it is described
MaxStored == 61

\* the MaxRecords of a first call; 19 and 101 are refused
PageSizes == {19, 20, 21, 100, 101}

\* the parameters of the next call of an iteration: the first call gives
\* MaxRecords, a following call gives the Marker it was handed, with or
\* without MaxRecords
NextParameters(again) ==
    IF pages.got = <<>> THEN ("max_records" :> pages.max_records)
    ELSE IF again THEN ("marker" :> pages.marker) @@ ("max_records" :> pages.max_records)
    ELSE ("marker" :> pages.marker)

\* what the caller keeps of a response: the page, the size it had asked for,
\* the marker; the iteration is over on an error or without a marker
Received(parameters, response) ==
    IF IsRaised(response) THEN [pages EXCEPT !.finished = TRUE]
    ELSE [pages EXCEPT !.got = Append(@, ResourceIds(response.resources)),
                       !.asked = Append(@, Get(parameters, "max_records", MAX_RECORDS)),
                       !.marker = response.marker,
                       !.finished = (response.marker = "")]

\* RDSResponse.call_action for DescribeDBSnapshots
DescribeDBSnapshots(w) ==
    \E again \in BOOLEAN :
        LET parameters == NextParameters(again)
            response == _paginate_response(parameters, describe_db_snapshots(db_snapshots))
        IN /\ pages.kind = "db_snapshots"
           /\ ~pages.finished
           /\ pages.got # <<>> \/ again
           /\ Called(w, [method |-> "describe_db_snapshots", parameters |-> parameters],
                     response)
           /\ pages' = Received(parameters, response)
           /\ UNCHANGED <<environ, db_snapshots, db_cluster_snapshots, addresses,
                          distributions>>

\* RDSResponse.call_action for DescribeDBClusterSnapshots
DescribeDBClusterSnapshots(w) ==
    \E again \in BOOLEAN :
        LET parameters == NextParameters(again)
            response == _paginate_response(parameters,
                            describe_db_cluster_snapshots(db_cluster_snapshots))
        IN /\ pages.kind = "db_cluster_snapshots"
           /\ ~pages.finished
           /\ pages.got # <<>> \/ again
           /\ Called(w, [method |-> "describe_db_cluster_snapshots",
                         parameters |-> parameters], response)
           /\ pages' = Received(parameters, response)
           /\ UNCHANGED <<environ, db_snapshots, db_cluster_snapshots, addresses,
                          distributions>>

\* a store of n snapshots, and an iteration over one of the stores that has
\* not made its first call
InitPaginate ==
    /\ NoParser
    /\ environ = [name \in {} |-> ""]
    /\ \E n \in 0..MaxStored :
           /\ db_snapshots = [i \in 1..n |->
                  DBSnapshot("snap-" \o ToString(i), "db-1", "automated")]
           /\ db_cluster_snapshots = [i \in 1..n |->
                  DBClusterSnapshot("snap-" \o ToString(i), "cluster-1", "manual")]
    /\ \E kind \in {"db_snapshots", "db_cluster_snapshots"}, P \in PageSizes :
           pages = [kind |-> kind, max_records |-> P, marker |-> "", got |-> <<>>,
                    asked |-> <<>>, finished |-> FALSE]
    /\ addresses = <<>>
    /\ distributions = <<>>

NextPaginate ==
    \E w \in Workers :
        \/ DescribeDBSnapshots(w)
        \/ DescribeDBClusterSnapshots(w)
        \/ Return(w)

\* an iteration over the pages of a store that does not change
SpecPaginate == InitPaginate /\ [][NextPaginate]_vars

\* the caller goes on calling while it holds a marker
SpecPaginateLive == SpecPaginate /\ WF_vars(NextPaginate)


---------------------------------------------------------------------------
(* The index probes of QueryParser._handle_list and _handle_map, one turn  *)
(* of `while True` at a time.  The parser keeps nothing between calls, so  *)
(* one call is followed at a time.                                         *)

MapShape(serialization, key, value) ==
    [type_name |-> "map", serialization |-> serialization, key |-> key, value |-> value]

\* a string shape whose definition gives a default
DefaultedString ==
    [type_name |-> "string", serialization |-> EmptyDict, members |-> <<>>,
     metadata |-> ("default" :> Str("none"))]

\* a structure whose only member is a string with a default
DefaultedMember == StructureShape(EmptyDict, << Member("Name", DefaultedString) >>)

\* the list shapes probed: of strings, of strings with a default, of
\* structures with a defaulted member, and a flattened list
ProbedLists ==
    { ListShape(EmptyDict, StringShape), ListShape(EmptyDict, DefaultedString),
      ListShape(EmptyDict, DefaultedMember), ListShape(("flattened" :> TRUE), StringShape) }

\* the map shapes probed: plain, with a default on the key, on the value
ProbedMaps ==
    { MapShape(EmptyDict, StringShape, StringShape),
      MapShape(EmptyDict, DefaultedString, StringShape),
      MapShape(EmptyDict, StringShape, DefaultedString),
      MapShape(("flattened" :> TRUE), StringShape, StringShape) }

\* the most turns of a probe the model follows
MaxProbes == 5

\* the indexes a request carries under the member Items
ProbedIndexes == SUBSET (1..MaxIndex)

\* the form fields of a request with a list under Items: indexed elements in
\* the spelling of every list shape probed, and the bare name
ListNodes ==
    { Indexed(<<"Items", "member">>, indexes) @@ Indexed(<<"Items">>, indexes)
        @@ [k \in {<<"Items", "member", ToString(i), "Name">> : i \in indexes} |-> Str("n")]
        @@ Field(<<"Items">>, bare) :
        indexes \in ProbedIndexes, bare \in {UNDEFINED, Str("")} }

\* the form fields of a request with a map under Items: keys and values
MapNodes ==
    { [k \in {<<"Items", "entry", ToString(i), "key">> : i \in keys} |-> Str("k" \o k[3])]
        @@ [k \in {<<"Items", "entry", ToString(i), "value">> : i \in values} |-> Str("v")]
        @@ [k \in {<<"Items", ToString(i), "key">> : i \in keys} |-> Str("k" \o k[2])]
        @@ [k \in {<<"Items", ToString(i), "value">> : i \in values} |-> Str("v")] :
        keys \in ProbedIndexes, values \in ProbedIndexes }

\* full_prefix of QueryParser._handle_map
QueryMapPrefix(shape, prefix) ==
    IF Get(shape.serialization, "flattened", FALSE) THEN prefix ELSE Dot(prefix, "entry")

\* _handle_list is called: the test of the bare prefix, then the first turn
HandleListStart(w) ==
    /\ pc[w] = "idle"
    /\ \A o \in Workers \ {w} : pc[o] = "idle"
    /\ \E shape \in ProbedLists, node \in ListNodes :
        /\ req' = [req EXCEPT ![w] = [method |-> "_handle_list", shape |-> shape,
                                       node |-> node, prefix |-> <<"Items">>]]
        /\ IF protocol # "ec2" /\ Get(node, <<"Items">>, UNDEFINED) = Str("")
           THEN /\ outcome' = [outcome EXCEPT ![w] = [t |-> "list", v |-> <<>>]]
                /\ pc' = [pc EXCEPT ![w] = "done"]
           ELSE /\ pc' = [pc EXCEPT ![w] = "probe"]
                /\ UNCHANGED outcome
    /\ idx' = [idx EXCEPT ![w] = 1]
    /\ final_parsed' = [final_parsed EXCEPT ![w] = [t |-> "list", v |-> <<>>]]
    /\ UNCHANGED <<uri_match, action, protocol>>
    /\ UNCHANGED <<resolverVars, backendVars>>

\* one turn of the loop of _handle_list
HandleListProbe(w) ==
    /\ pc[w] = "probe"
    /\ req[w].method = "_handle_list"
    /\ idx[w] <= MaxProbes
    /\ LET shape == req[w].shape
           list_prefix == IF protocol = "ec2" THEN req[w].prefix
                          ELSE QueryListPrefix(protocol, shape, req[w].prefix)
           element_name == Dot(list_prefix, ToString(idx[w]))
           value == QueryParseShape(protocol, shape.member, req[w].node, element_name)
           parsed_list == final_parsed[w]
       IN IF IsRaised(value)
          THEN Raise(w, value) /\ UNCHANGED <<idx, final_parsed>>
          ELSE IF value = UNDEFINED
          THEN /\ outcome' = [outcome EXCEPT ![w] =
                                 IF parsed_list.v # <<>> THEN parsed_list ELSE UNDEFINED]
               /\ pc' = [pc EXCEPT ![w] = "done"]
               /\ UNCHANGED <<idx, final_parsed>>
          ELSE /\ final_parsed' = [final_parsed EXCEPT ![w].v = Append(@, value)]
               /\ idx' = [idx EXCEPT ![w] = @ + 1]
               /\ UNCHANGED <<pc, outcome>>
    /\ UNCHANGED <<uri_match, req, action, protocol>>
    /\ UNCHANGED <<resolverVars, backendVars>>

\* _handle_map is called
HandleMapStart(w) ==
    /\ pc[w] = "idle"
    /\ \A o \in Workers \ {w} : pc[o] = "idle"
    /\ \E shape \in ProbedMaps, node \in MapNodes :
        req' = [req EXCEPT ![w] = [method |-> "_handle_map", shape |-> shape,
                                    node |-> node, prefix |-> <<"Items">>]]
    /\ pc' = [pc EXCEPT ![w] = "probe"]
    /\ idx' = [idx EXCEPT ![w] = 1]
    /\ final_parsed' = [final_parsed EXCEPT ![w] = [t |-> "dict", v |-> EmptyDict]]
    /\ UNCHANGED <<uri_match, action, outcome, protocol>>
    /\ UNCHANGED <<resolverVars, backendVars>>

\* one turn of the loop of _handle_map
HandleMapProbe(w) ==
    /\ pc[w] = "probe"
    /\ req[w].method = "_handle_map"
    /\ idx[w] <= MaxProbes
    /\ LET shape == req[w].shape
           full_prefix == QueryMapPrefix(shape, req[w].prefix)
           key_suffix == GetSerializedName(protocol, shape.key, "key")
           value_suffix == GetSerializedName(protocol, shape.value, "value")
           key_name == Dot(Dot(full_prefix, ToString(idx[w])), key_suffix)
           value_name == Dot(Dot(full_prefix, ToString(idx[w])), value_suffix)
           key == QueryParseShape(protocol, shape.key, req[w].node, key_name)
           value == QueryParseShape(protocol, shape.value, req[w].node, value_name)
           parsed_map == final_parsed[w]
       IN IF key = UNDEFINED
          THEN /\ outcome' = [outcome EXCEPT ![w] =
                                 IF parsed_map.v # EmptyDict THEN parsed_map ELSE UNDEFINED]
               /\ pc' = [pc EXCEPT ![w] = "done"]
               /\ UNCHANGED <<idx, final_parsed>>
          ELSE /\ final_parsed' = [final_parsed EXCEPT ![w].v = (key.v :> value) @@ @]
               /\ idx' = [idx EXCEPT ![w] = @ + 1]
               /\ UNCHANGED <<pc, outcome>>
    /\ UNCHANGED <<uri_match, req, action, protocol>>
    /\ UNCHANGED <<resolverVars, backendVars>>

InitProbe == InitQuery

NextProbe ==
    \E w \in Workers :
        \/ HandleListStart(w)
        \/ HandleListProbe(w)
        \/ HandleMapStart(w)
        \/ HandleMapProbe(w)
        \/ Return(w)

\* the decoding of one list or map member of a form-encoded request
SpecProbe == InitProbe /\ [][NextProbe]_vars


---------------------------------------------------------------------------
(* The Elastic IP addresses of moto/ec2/models/elastic_ip_addresses.py.    *)
(* The variable `addresses` holds the backend's list of ElasticAddress     *)
(* objects, [public_ip, allocation_id, domain, instance, eni,              *)
(* association_id], and the public_ip attribute of every network           *)
(* interface; an instance and a network interface are named by their id,   *)
(* and "" stands for None.                                                 *)

Instances == {"i-1", "i-2"}

\* the primary network interfaces of the two instances
NetworkInterfaces == {"eni-1", "eni-2"}

\* instance.nics[0], the primary network interface of an instance
PrimaryNic(instance) == IF instance = "i-1" THEN "eni-1" ELSE "eni-2"

\* the most addresses allocated at one time
MaxAddresses == 1

\* what random_ip, random_eip_allocation_id and random_eip_association_id
\* draw from; a draw is a value that is not in use
PublicIps == {"192.0.2." \o ToString(n) : n \in 1..MaxAddresses}

AllocationIds == {"eipalloc-" \o ToString(n) : n \in 1..MaxAddresses}

\* an address that is associated again is given a new association id
AssociationIds == {"eipassoc-" \o ToString(n) : n \in 1..(MaxAddresses + 1)}

\* ElasticAddress.__init__
ElasticAddress(domain, public_ip, allocation_id) ==
    [public_ip |-> public_ip,
     allocation_id |-> IF domain = "vpc" THEN allocation_id ELSE "",
     domain |-> domain, instance |-> "", eni |-> "", association_id |-> ""]

\* the index of the first address of the list that a test accepts, 0 without one
FirstAddress(list, Accepts(_)) ==
    IF \E i \in 1..Len(list) : Accepts(list[i])
    THEN CHOOSE i \in 1..Len(list) :
             Accepts(list[i]) /\ \A j \in 1..(i - 1) : ~Accepts(list[j])
    ELSE 0

\* ElasticAddressBackend.allocate_address
allocate_address(store, domain, public_ip, allocation_id) ==
    LET address == ElasticAddress(IF domain \notin {"standard", "vpc"} THEN "vpc" ELSE domain,
                                  public_ip, allocation_id)
    IN Left([store EXCEPT !.addresses = Append(@, address)], address)

\* eips[0] after address_by_ip or address_by_allocation: the index of the
\* address, or the exception of the lookup
FindAddress(store, address, allocation_id) ==
    LET by_ip(a) == a.public_ip = address
        by_allocation(a) == a.allocation_id = allocation_id
    IN IF address # ""
       THEN IF FirstAddress(store.addresses, by_ip) = 0
            THEN Raised("InvalidAddressError")
            ELSE [index |-> FirstAddress(store.addresses, by_ip)]
       ELSE IF allocation_id # ""
       THEN IF FirstAddress(store.addresses, by_allocation) = 0
            THEN Raised("InvalidAllocationIdError")
            ELSE [index |-> FirstAddress(store.addresses, by_allocation)]
       ELSE Raised("IndexError")

\* ElasticAddressBackend.associate_address; association_id is the draw of
\* random_eip_association_id
associate_address(store, instance, eni, address, allocation_id, reassociate, association_id) ==
    LET found == FindAddress(store, address, allocation_id)
    IN IF IsRaised(found) THEN Left(store, found)
       ELSE LET eip == store.addresses[found.index]
                new_instance_association ==
                    instance # "" /\ (eip.instance = "" \/ eip.instance = instance)
                new_eni_association == eni # "" /\ (eip.eni = "" \/ eni = eip.eni)
                new_eni == IF eni = "" /\ instance # "" THEN PrimaryNic(instance) ELSE eni
                after == [eip EXCEPT !.instance = instance, !.eni = new_eni,
                                     !.association_id =
                                         IF eip.domain = "vpc" THEN association_id ELSE @]
            IN IF new_instance_association \/ new_eni_association \/ reassociate
               THEN Left([addresses |-> [store.addresses EXCEPT ![found.index] = after],
                          enis |-> IF new_eni # ""
                                   THEN [store.enis EXCEPT ![new_eni] = eip.public_ip]
                                   ELSE store.enis],
                         after)
               ELSE Left(store, Raised("ResourceAlreadyAssociatedError"))

\* the body of disassociate_address for the address at an index
Disassociated(store, index) ==
    LET eip == store.addresses[index]
    IN [addresses |-> [store.addresses EXCEPT ![index] =
                          [eip EXCEPT !.instance = "", !.eni = "", !.association_id = ""]],
        enis |-> IF eip.eni # "" THEN [store.enis EXCEPT ![eip.eni] = ""] ELSE store.enis]

\* ElasticAddressBackend.disassociate_address (an interface that loses its
\* address is not given an automatic one)
disassociate_address(store, address, association_id) ==
    LET by_ip(a) == a.public_ip = address
        by_association(a) == a.association_id = association_id
        index == IF address # "" THEN FirstAddress(store.addresses, by_ip)
                 ELSE IF association_id # "" THEN FirstAddress(store.addresses, by_association)
                 ELSE 0
    IN IF index = 0
       THEN Left(store, Raised(IF address # "" THEN "InvalidAddressError"
                               ELSE IF association_id # "" THEN "InvalidAssociationIdError"
                               ELSE "IndexError"))
       ELSE Left(Disassociated(store, index), [t |-> "bool", v |-> TRUE])

\* ElasticAddressBackend.release_address
release_address(store, address, allocation_id) ==
    LET found == FindAddress(store, address, allocation_id)
    IN IF IsRaised(found) THEN Left(store, found)
       ELSE LET freed == Disassociated(store, found.index)
            IN Left([freed EXCEPT !.addresses =
                        SubSeq(@, 1, found.index - 1) \o SubSeq(@, found.index + 1, Len(@))],
                    [t |-> "bool", v |-> TRUE])

\* the values of the addresses in the list
InUse(field) == {addresses.addresses[i][field] : i \in 1..Len(addresses.addresses)}

\* one of the values that no address of the list has in the field
Draw(values, field) == CHOOSE v \in values : v \notin InUse(field)

AllocateAddress(w) ==
    \E domain \in {"standard", "vpc", "other"} :
        LET left == allocate_address(addresses, domain, Draw(PublicIps, "public_ip"),
                                     Draw(AllocationIds, "allocation_id"))
        IN /\ Len(addresses.addresses) < MaxAddresses
           /\ Called(w, [method |-> "allocate_address", domain |-> domain], left.result)
           /\ addresses' = left.store
           /\ UNCHANGED <<environ, db_snapshots, db_cluster_snapshots, pages, distributions>>

AssociateAddress(w) ==
    \E instance \in Instances \cup {""}, eni \in NetworkInterfaces \cup {""},
       address \in PublicIps \cup {""}, allocation_id \in AllocationIds \cup {""},
       reassociate \in BOOLEAN :
        LET left == associate_address(addresses, instance, eni, address, allocation_id,
                                      reassociate, Draw(AssociationIds, "association_id"))
        IN /\ address = "" \/ allocation_id = ""
           /\ Called(w, [method |-> "associate_address", instance |-> instance,
                         eni |-> eni, address |-> address, allocation_id |-> allocation_id,
                         reassociate |-> reassociate], left.result)
           /\ addresses' = left.store
           /\ UNCHANGED <<environ, db_snapshots, db_cluster_snapshots, pages, distributions>>

DisassociateAddress(w) ==
    \E address \in PublicIps \cup {""}, association_id \in AssociationIds \cup {""} :
        LET left == disassociate_address(addresses, address, association_id)
        IN /\ address = "" \/ association_id = ""
           /\ Called(w, [method |-> "disassociate_address", address |-> address,
                         association_id |-> association_id], left.result)
           /\ addresses' = left.store
           /\ UNCHANGED <<environ, db_snapshots, db_cluster_snapshots, pages, distributions>>

ReleaseAddress(w) ==
    \E address \in PublicIps \cup {""}, allocation_id \in AllocationIds \cup {""} :
        LET left == release_address(addresses, address, allocation_id)
        IN /\ address = "" \/ allocation_id = ""
           /\ Called(w, [method |-> "release_address", address |-> address,
                         allocation_id |-> allocation_id], left.result)
           /\ addresses' = left.store
           /\ UNCHANGED <<environ, db_snapshots, db_cluster_snapshots, pages, distributions>>

\* no address allocated, no interface with a public address
InitAddresses ==
    /\ NoParser
    /\ environ = [name \in {} |-> ""]
    /\ db_snapshots = <<>>
    /\ db_cluster_snapshots = <<>>
    /\ pages = <<>>
    /\ addresses = [addresses |-> <<>>, enis |-> [e \in NetworkInterfaces |-> ""]]
    /\ distributions = <<>>

NextAddresses ==
    \E w \in Workers :
        \/ AllocateAddress(w)
        \/ AssociateAddress(w)
        \/ DisassociateAddress(w)
        \/ ReleaseAddress(w)
        \/ Return(w)

\* allocation, association and release of Elastic IP addresses
SpecAddresses == InitAddresses /\ [][NextAddresses]_vars


---------------------------------------------------------------------------
(* The CloudFront distributions of moto/cloudfront/models.py.  The         *)
(* variable `distributions` holds the backend's dict in insertion order, a *)
(* distribution being [distribution_id, distribution_config]; a config     *)
(* dict is given by its CallerReference and by the TargetOriginId of its   *)
(* default cache behaviour, its one origin having the id "origin-1".  The  *)
(* deployment status of a distribution is left out.                        *)

\* the most distributions stored at one time
MaxDistributions == 2

\* what random_id draws from for a distribution id
DistributionIds == {"E" \o ToString(n) : n \in 1..MaxDistributions}

CallerReferences == {"ref-1", "ref-2"}

\* the config dicts of the requests: with or without CallerReference, with a
\* default cache behaviour that names the origin or another one, and {}
DistributionConfigs ==
    { Field("CallerReference", reference) @@ ("TargetOriginId" :> origin) :
        reference \in {UNDEFINED} \cup {Str(r) : r \in CallerReferences},
        origin \in {"origin-1", "origin-9"} }
    \cup {EmptyDict}

\* DistributionConfig.__init__
DistributionConfig(config) ==
    IF "TargetOriginId" \notin DOMAIN config THEN Raised("KeyError")
    ELSE IF config["TargetOriginId"] # "origin-1" THEN Raised("OriginDoesNotExist")
    ELSE IF "CallerReference" \notin DOMAIN config THEN Raised("KeyError")
    ELSE [caller_reference |-> config["CallerReference"].v,
          target_origin_id |-> config["TargetOriginId"]]

\* Distribution.__init__; distribution_id is the draw of random_id
Distribution(distribution_id, config) ==
    LET distribution_config == DistributionConfig(config)
    IN IF IsRaised(distribution_config) THEN distribution_config
       ELSE [distribution_id |-> distribution_id,
             distribution_config |-> distribution_config]

\* CloudFrontBackend._distribution_with_caller_reference: the index of the
\* first distribution with the reference, 0 for None
_distribution_with_caller_reference(store, reference) ==
    LET with == {i \in 1..Len(store) :
                    store[i].distribution_config.caller_reference = reference}
    IN IF with = {} THEN 0 ELSE CHOOSE i \in with : \A j \in with : i <= j

\* the index of the distribution with an id in the dict, 0 when it is not a key
DistributionAt(store, distribution_id) ==
    IF \E i \in 1..Len(store) : store[i].distribution_id = distribution_id
    THEN CHOOSE i \in 1..Len(store) : store[i].distribution_id = distribution_id
    ELSE 0

\* CloudFrontBackend.create_distribution_with_tags
create_distribution_with_tags(store, distribution_config, distribution_id) ==
    LET dist == Distribution(distribution_id, distribution_config)
    IN IF IsRaised(dist) THEN Left(store, dist)
       ELSE IF _distribution_with_caller_reference(
                   store, dist.distribution_config.caller_reference) # 0
       THEN Left(store, Raised("DistributionAlreadyExists"))
       ELSE Left(Append(store, dist), dist)

\* CloudFrontBackend.create_distribution
create_distribution(store, distribution_config, distribution_id) ==
    create_distribution_with_tags(store, distribution_config, distribution_id)

\* CloudFrontBackend.delete_distribution
delete_distribution(store, distribution_id, if_match) ==
    IF ~if_match THEN Left(store, Raised("InvalidIfMatchVersion"))
    ELSE IF DistributionAt(store, distribution_id) = 0
    THEN Left(store, Raised("NoSuchDistribution"))
    ELSE Left(SelectSeq(store, LAMBDA d : d.distribution_id # distribution_id), None)

\* CloudFrontBackend.update_distribution
update_distribution(store, dist_config, _id, if_match) ==
    IF DistributionAt(store, _id) = 0 THEN Left(store, Raised("NoSuchDistribution"))
    ELSE IF ~if_match THEN Left(store, Raised("InvalidIfMatchVersion"))
    ELSE IF dist_config = EmptyDict THEN Left(store, Raised("NoSuchDistribution"))
    ELSE LET index == DistributionAt(store, _id)
             distribution_config == DistributionConfig(dist_config)
             dist == [store[index] EXCEPT !.distribution_config = distribution_config]
         IN IF IsRaised(distribution_config) THEN Left(store, distribution_config)
            ELSE Left([store EXCEPT ![index] = dist], dist)

CreateDistribution(w) ==
    \E config \in DistributionConfigs :
        LET used == {distributions[i].distribution_id : i \in 1..Len(distributions)}
            left == create_distribution(distributions, config,
                                        CHOOSE id \in DistributionIds : id \notin used)
        IN /\ Len(distributions) < MaxDistributions
           /\ Called(w, [method |-> "create_distribution", distribution_config |-> config],
                     left.result)
           /\ distributions' = left.store
           /\ UNCHANGED <<environ, db_snapshots, db_cluster_snapshots, pages, addresses>>

UpdateDistribution(w) ==
    \E config \in DistributionConfigs, id \in DistributionIds, if_match \in BOOLEAN :
        LET left == update_distribution(distributions, config, id, if_match)
        IN /\ Called(w, [method |-> "update_distribution", dist_config |-> config,
                         id |-> id, if_match |-> if_match], left.result)
           /\ distributions' = left.store
           /\ UNCHANGED <<environ, db_snapshots, db_cluster_snapshots, pages, addresses>>

DeleteDistribution(w) ==
    \E id \in DistributionIds, if_match \in BOOLEAN :
        LET left == delete_distribution(distributions, id, if_match)
        IN /\ Called(w, [method |-> "delete_distribution", id |-> id,
                         if_match |-> if_match], left.result)
           /\ distributions' = left.store
           /\ UNCHANGED <<environ, db_snapshots, db_cluster_snapshots, pages, addresses>>

\* no distribution
InitDistributions ==
    /\ NoParser
    /\ environ = [name \in {} |-> ""]
    /\ db_snapshots = <<>>
    /\ db_cluster_snapshots = <<>>
    /\ pages = <<>>
    /\ addresses = <<>>
    /\ distributions = <<>>

NextDistributions ==
    \E w \in Workers :
        \/ CreateDistribution(w)
        \/ UpdateDistribution(w)
        \/ DeleteDistribution(w)
        \/ Return(w)

\* create, update and delete of CloudFront distributions
SpecDistributions == InitDistributions /\ [][NextDistributions]_vars


---------------------------------------------------------------------------
(* Properties of REST decoding *)

Done(w) == pc[w] = "done"

Succeeded(w) == Done(w) /\ ~IsRaised(outcome[w])

\* the members of the matched operation's input structure bound to a location
LocatedMembers(w, locations) ==
    LET members == InputShape(w).members
    IN {i \in 1..Len(members) :
           Get(members[i].shape.serialization, "location", "None") \in locations}

\* the path parameters of worker w's own request under its operation's
\* template, each under the label the template names it by
OwnPathParams(w) ==
    LET uri == OperationModel(RestOperations, action[w]).http.requestUri
        match == ReMatch(uri_to_regexp(uri), req[w].url_path)
        labels == {uri[i].var : i \in {j \in 1..Len(uri) : "var" \in DOMAIN uri[j]}}
    IN IF match.state = "match"
       THEN [label \in labels |-> match.groups[ReplaceHyphen(label)]]
       ELSE EmptyDict

\* the wire name of member i of the matched operation's input structure
WireName(w, i) ==
    LET m == InputShape(w).members[i] IN Get(m.shape.serialization, "name", m.mname)

\* what worker w's own request carries at the declared location of member i
CarriedAt(w, i) ==
    LET location == InputShape(w).members[i].shape.serialization["location"]
        source == CASE location = "uri" -> OwnPathParams(w)
                    [] location = "header" -> req[w].headers
                    [] OTHER -> req[w].values
    IN IF WireName(w, i) \in DOMAIN source
       THEN Str(Unquote(source[WireName(w, i)]))
       ELSE UNDEFINED

\* C1: when requests are decoded concurrently through one decoder instance,
\* every uri-bound member of a result is the path parameter of that result's
\* own request, never of another request.
C1_UriMembersFromOwnRequest ==
    \A w \in Workers :
        Succeeded(w) =>
            \A i \in LocatedMembers(w, {"uri"}) :
                LET mname == InputShape(w).members[i].mname
                IN mname \in DOMAIN outcome[w].params =>
                       outcome[w].params[mname] = CarriedAt(w, i)

\* C4: a member bound to uri, header or querystring is never read from the
\* body: in every decoded result it has the value its own request carries
\* at the declared location, and it is absent when the request carries none.
C4_LocatedMembersNeverFromBody ==
    \A w \in Workers :
        Succeeded(w) =>
            \A i \in LocatedMembers(w, {"uri", "header", "querystring"}) :
                LET mname == InputShape(w).members[i].mname
                IN IF mname \in DOMAIN outcome[w].params
                   THEN outcome[w].params[mname] = CarriedAt(w, i)
                   ELSE TRUE

\* the request of worker w carries a value for every located member of the
\* matched operation and a body document that holds the body member Name alone
CarriesAllMembers(w) ==
    /\ \A i \in LocatedMembers(w, {"uri", "header", "querystring"}) : CarriedAt(w, i) # UNDEFINED
    /\ \/ protocol = "rest-json" /\ req[w].body = JsonObject("{Name:foo}", NameOnly)
       \/ /\ protocol = "rest-xml"
          /\ req[w].body = XmlDocument("<Request><Name>foo</Name></Request>",
                                       <<Elem("Name", Str("foo"), <<>>)>>)

\* the value of every member of the matched operation's input shape, each
\* taken from where worker w's request carries it
AllMembersAsCarried(w) ==
    LET members == InputShape(w).members
    IN [m \in {members[i].mname : i \in 1..Len(members)} |->
           LET i == MemberIndex(members, m)
           IN IF "location" \in DOMAIN members[i].shape.serialization
              THEN CarriedAt(w, i)
              ELSE Str("foo")]

\* C5: for an input structure with one uri, one header, one querystring and
\* one body member, a request that carries all four decodes to exactly
\* those four values; and PUT /widgets/abc123 with body {"Name":"foo"}
\* decodes to {Id: "abc123", Name: "foo"} for the shape {Id: uri, Name: body}.
C5_AllFourLocationsDecoded ==
    \A w \in Workers :
        /\ Done(w)
        /\ action[w] \in {"PutWidget", "UpdateWidget", "PutBroker"}
        /\ CarriesAllMembers(w)
        => /\ Succeeded(w)
           /\ outcome[w].params = AllMembersAsCarried(w)

\* C9: a body that is not well-formed JSON (JSON protocols) or XML (XML
\* protocol) is not fatal: the decode call of an operation that has an input
\* shape completes without raising.
C9_MalformedBodyNotFatal ==
    \A w \in Workers :
        /\ Done(w)
        /\ action[w] \in OperationNames(RestOperations)
        /\ req[w].body.syntax = "garbage"
        => Succeeded(w)

---------------------------------------------------------------------------
(* C2, C8: the query decoders *)

\* the list members of TagWidgets and the prefix their elements are sent under
ListPrefixes ==
    [m \in {"Foo", "Bar", "Tags"} |->
        CASE m = "Foo" -> <<"Foo">>
          [] m = "Tags" -> <<"Tag">>
          [] OTHER -> IF protocol = "ec2" THEN <<"Bar">> ELSE <<"Bar", "member">>]

\* the number of indexes 1, 2, ... present under prefix before the first gap
RunLength(values, prefix) ==
    CHOOSE n \in 0..Cardinality(DOMAIN values) :
        /\ \A i \in 1..n : Dot(prefix, ToString(i)) \in DOMAIN values
        /\ Dot(prefix, ToString(n + 1)) \notin DOMAIN values

\* the request carries the explicit-empty-list marker of the query protocol
\* for list member m: the empty string at the member's bare prefix
HasEmptyMarker(values, m) ==
    /\ protocol = "query"
    /\ Get(values, <<ListPrefixes[m][1]>>, UNDEFINED) = Str("")

\* the parse of worker w decoded the TagWidgets operation
DecodedTagWidgets(w) ==
    /\ protocol \in {"query", "ec2"}
    /\ Succeeded(w)
    /\ outcome[w].action = "TagWidgets"

\* C2: a list member decodes to the values at prefix.1, prefix.2, ... up to
\* the first absent index, keys after a gap are left out, and a list with no
\* key at index 1 is absent from the parameters (not an empty list), unless
\* the request carries the query protocol's explicit-empty-list marker.
C2_ListProbedUntilFirstGap ==
    \A w \in Workers : DecodedTagWidgets(w) =>
        \A m \in DOMAIN ListPrefixes :
            LET values == req[w].values
                n == RunLength(values, ListPrefixes[m])
                params == outcome[w].params
            IN ~HasEmptyMarker(values, m) =>
                  IF n = 0
                  THEN m \notin DOMAIN params
                  ELSE /\ m \in DOMAIN params
                       /\ params[m].t = "list"
                       /\ params[m].v =
                              [i \in 1..n |-> values[Dot(ListPrefixes[m], ToString(i))]]

\* C2 witness: a request with Foo.1 and Foo.3 but no Foo.2, and with no key
\* for Tags, was decoded: Foo has one element and Tags is absent
C2_Witness ==
    \E w \in Workers :
        /\ DecodedTagWidgets(w)
        /\ {<<"Foo", "1">>, <<"Foo", "3">>} \subseteq DOMAIN req[w].values
        /\ <<"Foo", "2">> \notin DOMAIN req[w].values
        /\ ~HasEmptyMarker(req[w].values, "Foo")
        /\ outcome[w].params["Foo"].v = <<Str("v1")>>
        /\ "Tags" \notin DOMAIN outcome[w].params

\* C8: a parse ends with parameters or with a 400/404-class outcome; no
\* other exception leaves the decoder.
C8_NoUnhandledFault ==
    \A w \in Workers :
        (Done(w) /\ IsRaised(outcome[w]))
            => outcome[w].raised \in {"BadRequest", "NotFound"}


---------------------------------------------------------------------------
(* C3, C10: the router *)

\* worker w has routed a POST /resource request on the rest-json service,
\* where CreateTagged (requiring header X) and Create share method and path
RoutedSharedPost(w) ==
    /\ protocol = "rest-json"
    /\ pc[w] = "done" /\ "path" \in DOMAIN req[w]
    /\ req[w].method = "POST"
    /\ req[w].path \in {<<"resource">>, <<"resource", "">>}

\* C3 as stated: the request resolves to the operation requiring the header
\* if it carries header X: a, and to the other operation if it does not.
C3_ResolvedByHeaderValue ==
    \A w \in Workers : RoutedSharedPost(w) =>
        /\ ~IsRaised(outcome[w])
        /\ outcome[w].operation =
               IF Get(req[w].headers, "X", "") = "a" THEN "CreateTagged" ELSE "Create"

\* C3 amended: the request resolves to the operation requiring the header if
\* it carries a header X, whatever its value, and to the other operation if
\* it carries no header X.
C3_ResolvedByHeaderPresence ==
    \A w \in Workers : RoutedSharedPost(w) =>
        /\ ~IsRaised(outcome[w])
        /\ outcome[w].operation =
               IF "X" \in DOMAIN req[w].headers THEN "CreateTagged" ELSE "Create"

\* C3 witness: a request with X: b was routed to the operation requiring X
C3_Witness ==
    \E w \in Workers :
        /\ RoutedSharedPost(w)
        /\ Get(req[w].headers, "X", "") = "b"
        /\ outcome[w] = [operation |-> "CreateTagged", args |-> EmptyDict]

\* worker w has been given the result of ServiceOperationRouter.match
Routed(w) == pc[w] = "done" /\ "path" \in DOMAIN req[w]

\* the request of worker w names one of the service's actions the way the
\* service's protocol names it
NamesAction(w) ==
    CASE protocol \in {"query", "ec2"} ->
             Get(req[w].values, "Action", "") \in {"TagWidgets", "ListTags"}
      [] protocol = "json" ->
             Get(req[w].headers, "X-Amz-Target", "")
                 \in {"Widgets.TagWidgets", "Widgets.ListTags"}
      [] OTHER -> FALSE

---------------------------------------------------------------------------
(* C6, C7: the encoders *)

\* the encoder has been handed an error by worker w and has ended
EncodedError(w) ==
    /\ pc[w] = "done" /\ "value" \in DOMAIN req[w]
    /\ req[w].value.t = "exception"

\* the status code the service model declares for an error, 400 if none
DeclaredStatus(error) == IF error.class = "WidgetNotFound" THEN 404 ELSE 400

\* the code under which an error is reported
ReportedCode(error) ==
    CASE error.class = "WidgetNotFound" -> "WidgetNotFoundFault"
      [] error.class = "ServiceError" -> "QuotaExceeded"
      [] OTHER -> error.class

\* the Code and Message texts found in an encoded body
EnvelopeTexts(body) ==
    LET Inner(d) == IF "Error" \in DOMAIN d THEN d["Error"].v ELSE EmptyDict
        Pair(d) == IF {"Code", "Message"} \subseteq DOMAIN Inner(d)
                   THEN {<<Inner(d)["Code"].v, Inner(d)["Message"].v>>} ELSE {}
    IN IF "syntax" \notin DOMAIN body THEN {}
       ELSE IF body.syntax = "json"
       THEN (IF body.doc.t = "dict" THEN Pair(body.doc.v) ELSE {})
       ELSE UNION { { <<c.text, m.text>> :
                        c \in {x \in e.children : x.tag = "Code"},
                        m \in {x \in e.children : x.tag = "Message"} } :
                    e \in UNION { {x \in n.children : x.tag = "Error"} :
                                  n \in {r \in body.nodes : r.tag = "ErrorResponse"} } }

\* C6: an encoder handed an error returns the error envelope, not the
\* operation's response element, with the status the error's shape declares,
\* or 400 when it declares none.
C6_ErrorEnvelopeWithDeclaredStatus ==
    \A w \in Workers :
        (EncodedError(w) /\ protocol \in DOMAIN SERIALIZERS) =>
            /\ ~IsRaised(outcome[w])
            /\ "status_code" \in DOMAIN outcome[w]
            /\ outcome[w].status_code = DeclaredStatus(req[w].value)
            /\ EnvelopeTexts(outcome[w].body)
                   = {<<ReportedCode(req[w].value), req[w].value.message>>}

\* C7: in each of the five protocols an error is encoded as a response with
\* a non-2xx status and a body holding the error's code and message.
C7_ErrorResponseInEveryProtocol ==
    \A w \in Workers :
        (EncodedError(w) /\ protocol \in {"query", "ec2", "json", "rest-json", "rest-xml"}) =>
            /\ ~IsRaised(outcome[w])
            /\ "status_code" \in DOMAIN outcome[w]
            /\ outcome[w].status_code \notin 200..299
            /\ <<ReportedCode(req[w].value), req[w].value.message>>
                   \in EnvelopeTexts(outcome[w].body)

---------------------------------------------------------------------------
(* Properties of encoding followed by decoding *)

RECURSIVE SameValue(_, _)
\* two Python values are equal: the same type, and the same items or content
SameValue(a, b) ==
    /\ a.t = b.t
    /\ CASE a.t = "dict" ->
               /\ DOMAIN a.v = DOMAIN b.v
               /\ \A k \in DOMAIN a.v : SameValue(a.v[k], b.v[k])
         [] a.t = "list" ->
               /\ Len(a.v) = Len(b.v)
               /\ \A i \in 1..Len(a.v) : SameValue(a.v[i], b.v[i])
         [] OTHER -> a.v = b.v

\* C11: in every protocol that has both an encoder and a decoder, decoding
\* the encoding of a value under the same shape gives the value back,
\* decode(encode(v, shape), shape) = v, also for values with absent
\* members and with lists
C11_RoundTrip ==
    \A w \in Workers :
        Done(w) /\ "value" \in DOMAIN req[w] =>
            /\ ~IsRaised(outcome[w])
            /\ SameValue(outcome[w], req[w].value)

---------------------------------------------------------------------------
(* Properties of shape resolution *)

\* what a caller can read from a shape it holds
ShapeView(shape, class_attrs) ==
    [class |-> shape.class, shape_name |-> shape.shape_name,
     shape_model |-> shape.shape_model, metadata |-> ShapeMetadata(shape, class_attrs)]

\* two calls of one resolver with the same name and traits returned
\* structurally identical shapes
SameNameSameShape ==
    \A i, j \in 1..Len(resolved) :
        resolved[i].call = resolved[j].call =>
            ShapeView(resolved[i].shape, METADATA_ATTRS)
                = ShapeView(resolved[j].shape, METADATA_ATTRS)

\* a step leaves every shape returned before as it was
EarlierShapesUnchanged ==
    \A i \in 1..Len(resolved) :
        /\ i <= Len(resolved')
        /\ ShapeView(resolved'[i].shape, METADATA_ATTRS')
               = ShapeView(resolved[i].shape, METADATA_ATTRS)

\* a structure that refers to itself is returned with its members still
\* references by name, so a call does not follow the reference
ReferencesUnfollowed ==
    \A i \in 1..Len(resolved) :
        resolved[i].call.shape_name = "Node" =>
            resolved[i].shape.shape_model["members"]["Next"] = ("shape" :> "Node")

\* C12: resolving the same shape name twice returns structurally identical
\* shapes, resolving a self-referential structure returns without following
\* the reference, and a later resolution never changes a shape returned by
\* an earlier one
C12_IdempotentShapeResolution ==
    /\ [](SameNameSameShape /\ ReferencesUnfollowed)
    /\ [][EarlierShapesUnchanged]_vars

\* C12: the self-referential Node was resolved twice by one resolver, the
\* second time for its own member Next
C12_Witness ==
    \E i, j \in 1..Len(resolved) :
        /\ i < j
        /\ resolved[i].call = resolved[j].call
        /\ resolved[i].call.shape_name = "Node"
        /\ resolved[i].call.module = "motocore"

---------------------------------------------------------------------------
(* Properties of composite rules *)

\* the candidate rules of the (method, /resource) group the request of
\* worker w falls into: the rules of the group's _RequestMatchingRule
CandidateRules(w) ==
    LET rules == create_service_map(RoutedServices["rest-json"])["rest-json"]
        group == CHOOSE k \in 1..Len(rules) :
                     /\ "rules" \in DOMAIN rules[k]
                     /\ req[w].method \in rules[k].methods
    IN rules[group].rules

\* worker w has been given the result for a request of a group of
\* operations that share method and path
RoutedInGroup(w) ==
    /\ protocol = "rest-json"
    /\ Routed(w)
    /\ req[w].method \in {"POST", "PUT"}
    /\ req[w].path = <<"resource">>

RequiredMarkers(rule) ==
    Cardinality(DOMAIN rule.required_query_args) + Len(rule.required_header_args)

Satisfied(w) ==
    {k \in 1..Len(CandidateRules(w)) :
        matches(CandidateRules(w)[k], req[w].args, req[w].headers)}

\* the candidates are in descending score order, the first satisfied one is
\* accepted, NotFound is raised when none is satisfied, and so the accepted
\* rule has the maximum score among the satisfied ones
FirstSatisfiedOfDescending(w) ==
    LET rules == CandidateRules(w)
    IN /\ \A i, j \in 1..Len(rules) : i < j => rules[i].match_score >= rules[j].match_score
       /\ IF Satisfied(w) = {} THEN outcome[w] = Raised("NotFound")
          ELSE LET first == CHOOSE k \in Satisfied(w) : \A n \in Satisfied(w) : k <= n
               IN /\ ~IsRaised(outcome[w])
                  /\ outcome[w].operation = rules[first].endpoint.name
                  /\ \A n \in Satisfied(w) :
                         rules[first].match_score >= rules[n].match_score

\* C13 as stated: a rule's score is 10 x (number of required markers), less
\* a penalty when the operation is deprecated; the candidates of a group are
\* tried in descending score order and the first satisfied one is accepted,
\* so the selected operation has maximum score among the satisfied rules.
C13_ScoreIsTenPerMarker ==
    \A w \in Workers : RoutedInGroup(w) =>
        /\ \E penalty \in 1..9 :
               \A k \in 1..Len(CandidateRules(w)) :
                   CandidateRules(w)[k].match_score =
                       10 * RequiredMarkers(CandidateRules(w)[k])
                           - (IF CandidateRules(w)[k].endpoint.deprecated THEN penalty ELSE 0)
        /\ FirstSatisfiedOfDescending(w)

\* C13 amended: a rule's score is 10 + 10 x (number of required markers),
\* less 5 when the operation is deprecated; the candidates of a group are
\* tried in descending score order and the first satisfied one is accepted,
\* so the selected operation has maximum score among the satisfied rules.
C13_ScoreIsTenPlusTenPerMarker ==
    \A w \in Workers : RoutedInGroup(w) =>
        /\ \A k \in 1..Len(CandidateRules(w)) :
               CandidateRules(w)[k].match_score =
                   10 + 10 * RequiredMarkers(CandidateRules(w)[k])
                       - (IF CandidateRules(w)[k].endpoint.deprecated THEN 5 ELSE 0)
        /\ FirstSatisfiedOfDescending(w)

\* C13 witness: a request satisfying the deprecated ImportLegacy, declared
\* first, and Import was routed to Import
C13_Witness ==
    \E w \in Workers :
        /\ RoutedInGroup(w)
        /\ req[w].method = "PUT"
        /\ Cardinality(Satisfied(w)) >= 2
        /\ ~IsRaised(outcome[w])
        /\ outcome[w].operation = "Import"

---------------------------------------------------------------------------
(* Properties of values without a shape *)

\* the encoder of a protocol that has one was handed, for an operation with
\* an output shape, a value that is no result of that shape and no error
\* of a shape the service declares
EncodedUnmatched(w) ==
    /\ pc[w] = "done" /\ "value" \in DOMAIN req[w]
    /\ protocol \in DOMAIN SERIALIZERS
    /\ req[w].operation_model.output_shape # NoShape
    /\ \/ req[w].value \in UnshapedValues
       \/ req[w].value.t = "exception" /\ req[w].value.class = "ValueError"

\* str(value)
Stringified(value) ==
    CASE value.t = "exception" -> value.message
      [] value.t = "str" -> value.v
      [] OTHER -> "{'Colour': 'red'}"

\* C14: an encoder given an object that matches neither the operation's
\* output shape nor a recognised error shape returns a response with status
\* 400 whose message is the stringified value; the value is never dropped.
C14_UnmatchedValueIsGeneric400 ==
    \A w \in Workers : EncodedUnmatched(w) =>
        /\ ~IsRaised(outcome[w])
        /\ "status_code" \in DOMAIN outcome[w]
        /\ outcome[w].status_code = DEFAULT_ERROR_RESPONSE_CODE
        /\ \E pair \in EnvelopeTexts(outcome[w].body) : pair[2] = Stringified(req[w].value)

---------------------------------------------------------------------------
(* Properties of JSON null *)

\* worker w's request of an operation with the body member Name came with a
\* JSON object as its body and was decoded by the rest-json decoder
JsonObjectDecoded(w) ==
    /\ Succeeded(w)
    /\ protocol = "rest-json"
    /\ action[w] \in {"PutWidget", "UpdateWidget", "PutBroker", "CountWidgets"}
    /\ req[w].body.syntax = "json"
    /\ req[w].body.doc.t = "dict"

\* C15: in JSON decoding a member whose key is absent from the document is
\* not provided in the decoded parameters, and a member whose key is present
\* with the value null is preserved as null, neither dropped nor coerced.
C15_AbsentOmittedNullPreserved ==
    \A w \in Workers : JsonObjectDecoded(w) =>
        IF "Name" \notin DOMAIN req[w].body.doc.v
        THEN "Name" \notin DOMAIN outcome[w].params
        ELSE req[w].body.doc.v["Name"] = None =>
                 /\ "Name" \in DOMAIN outcome[w].params
                 /\ outcome[w].params["Name"] = None

---------------------------------------------------------------------------
(* Properties of the ec2 decoder against the query decoder *)

RECURSIVE Ec2Shape(_)
\* a shape as the two ec2 rules change it: every wire name with its first
\* letter in upper case and every list flattened
Ec2Shape(shape) ==
    LET named == IF "name" \in DOMAIN shape.serialization
                 THEN ("name" :> Capitalize(shape.serialization["name"])) ELSE EmptyDict
    IN CASE shape.type_name = "structure" ->
                [shape EXCEPT
                    !.serialization = named @@ @,
                    !.members = [i \in 1..Len(shape.members) |->
                                    Member(shape.members[i].mname,
                                           Ec2Shape(shape.members[i].shape))]]
         [] shape.type_name = "list" ->
                [shape EXCEPT !.serialization = ("flattened" :> TRUE) @@ named @@ @,
                              !.member = Ec2Shape(shape.member)]
         [] OTHER -> [shape EXCEPT !.serialization = named @@ @]

\* C16: for the same input shape and the same key/value pairs the ec2
\* decoder gives what the query decoder gives once wire names are
\* capitalised and every list is flattened; structure probing, list
\* termination, the bare-prefix empty-list sentinel and scalar coercion are
\* the same in both.
C16_Ec2IsQueryWithTwoRules ==
    \A w \in Workers :
        (Done(w) /\ protocol = "ec2" /\ action[w] = "TagWidgets") =>
            LET expected == QueryDoParse("query", req[w], Ec2Shape(TagWidgetsInput))
            IN IF IsRaised(expected) THEN outcome[w] = expected
               ELSE /\ ~IsRaised(outcome[w])
                    /\ outcome[w].params = expected

---------------------------------------------------------------------------
(* Properties of the empty-list sentinel *)

\* C17: in the query decoder a list whose bare prefix is present with the
\* empty string decodes to the empty list whatever indexed keys the request
\* has under the prefix; only without it does the decoder probe the indexes.
C17_BarePrefixEmptyStringWins ==
    \A w \in Workers :
        (DecodedTagWidgets(w) /\ protocol = "query") =>
            LET values == req[w].values
                params == outcome[w].params
                n == RunLength(values, <<"Foo">>)
            IN IF Get(values, <<"Foo">>, UNDEFINED) = Str("")
               THEN "Foo" \in DOMAIN params /\ params["Foo"] = [t |-> "list", v |-> <<>>]
               ELSE IF n = 0 THEN "Foo" \notin DOMAIN params
               ELSE /\ "Foo" \in DOMAIN params
                    /\ params["Foo"].v = [i \in 1..n |-> values[<<"Foo", ToString(i)>>]]

\* C17 witness: a request with Foo= and Foo.1 was decoded to an empty Foo
C17_Witness ==
    \E w \in Workers :
        /\ DecodedTagWidgets(w) /\ protocol = "query"
        /\ Get(req[w].values, <<"Foo">>, UNDEFINED) = Str("")
        /\ <<"Foo", "1">> \in DOMAIN req[w].values
        /\ outcome[w].params["Foo"] = [t |-> "list", v |-> <<>>]

---------------------------------------------------------------------------
(* Properties of boolean decoding *)

\* the parse of worker w decoded EnableWidget from a request that carries
\* the boolean member
DecodedEnabled(w) ==
    /\ protocol \in {"query", "ec2"}
    /\ Succeeded(w)
    /\ outcome[w].action = "EnableWidget"
    /\ <<"Enabled">> \in DOMAIN req[w].values

\* C18: a boolean decodes the same way in every protocol: true exactly when
\* its text is the lower-case string true (True and TRUE are not true), and
\* the JSON and XML decoders give the same answer for the same text.
C18_BooleanIsCaseSensitiveEverywhere ==
    \A w \in Workers : DecodedEnabled(w) =>
        LET text == req[w].values[<<"Enabled">>]
            shape == ScalarShape("boolean", EmptyDict)
        IN /\ "Enabled" \in DOMAIN outcome[w].params
           /\ outcome[w].params["Enabled"] = Bool(text.v = "true")
           /\ ParseShape("rest-json", shape, text) = outcome[w].params["Enabled"]
           /\ ParseShape("rest-xml", shape, Elem("Enabled", text, <<>>))
                = outcome[w].params["Enabled"]
           /\ ParseShape("json", shape, Bool(text.v = "true")) = Bool(text.v = "true")

---------------------------------------------------------------------------
(* Properties of the encoding of structures and booleans *)

\* worker w's result of DescribeWidget was encoded into a response
EncodedResult(w) ==
    /\ pc[w] = "done" /\ "value" \in DOMAIN req[w]
    /\ req[w].value \in ResultValues
    /\ req[w].operation_model.output_shape = WidgetOutput
    /\ ~IsRaised(outcome[w])

\* the members the response of an encoded result holds, by their key or tag
EncodedMembers(w) ==
    CASE protocol = "query" ->
             LET root == CHOOSE n \in outcome[w].body.nodes : TRUE
                 wrapper == CHOOSE c \in root.children : c.tag = "DescribeWidgetResult"
             IN [tag \in {c.tag : c \in wrapper.children} |->
                    Str((CHOOSE c \in wrapper.children : c.tag = tag).text)]
      [] protocol = "query-json" ->
             outcome[w].body.doc.v["DescribeWidgetResponse"].v["DescribeWidgetResult"].v
      [] OTHER -> outcome[w].doc.v["DescribeWidgetResult"].v

\* the wire names of the members of shape that have a value in a result
GivenWireNames(shape, value) ==
    LET keys(m) == {m.mname, xform_name(m.mname)}
        given(m) == \E key \in keys(m) \cap DOMAIN value.v : value.v[key] # None
    IN {Get(shape.members[k].shape.serialization, "name", shape.members[k].mname) :
            k \in {n \in 1..Len(shape.members) : given(shape.members[n])}}

\* worker w's params of a rest-xml body were encoded
EncodedBody(w) == pc[w] = "done" /\ "params" \in DOMAIN req[w]

\* the wire names of the params that are not None, in the order of the params
GivenElements(shape, params) ==
    LET given == SelectSeq(params.keys, LAMBDA key : params.v[key] # None)
    IN [i \in 1..Len(given) |->
           Get(shape.members[MemberIndex(shape.members, given[i])].shape.serialization,
               "name", given[i])]

\* C19: an encoded structure holds exactly the members that have a value,
\* each under its wire name: nothing is written for an absent member, and
\* the members after an absent one are still written.
C19_AbsentMemberSkippedOthersWritten ==
    \A w \in Workers :
        /\ EncodedResult(w) =>
               DOMAIN EncodedMembers(w) = GivenWireNames(WidgetOutput, req[w].value)
        /\ EncodedBody(w) =>
               /\ ~IsRaised(outcome[w])
               /\ [i \in 1..Len(outcome[w].doc.children) |-> outcome[w].doc.children[i].tag]
                      = GivenElements(req[w].shape, req[w].params)

\* the literal text of a boolean
BooleanText(value) == Str(IF value.v THEN "true" ELSE "false")

\* C20: a boolean is written as the text true or false by the query encoder
\* and by the rest-xml encoder, and as a native JSON boolean by the json and
\* rest-json encoders.
C20_BooleanTextInXmlNativeInJson ==
    \A w \in Workers :
        /\ (EncodedResult(w) /\ "Enabled" \in DOMAIN req[w].value.v
                /\ protocol \in {"query", "json", "rest-json"}) =>
               /\ "Enabled" \in DOMAIN EncodedMembers(w)
               /\ SameValue(EncodedMembers(w)["Enabled"],
                            IF protocol = "query" THEN BooleanText(req[w].value.v["Enabled"])
                            ELSE req[w].value.v["Enabled"])
        /\ (EncodedBody(w) /\ ~IsRaised(outcome[w])) =>
               \A i \in 1..Len(outcome[w].doc.children) :
                   outcome[w].doc.children[i].tag = "Enabled" =>
                       outcome[w].doc.children[i].text = BooleanText(req[w].params.v["Enabled"])

---------------------------------------------------------------------------
(* Properties of request normalisation in the router *)

\* the method a request is matched with
NormalMethod(method) == IF method = "OPTIONS" THEN "GET" ELSE method

\* a path without its trailing slashes: the elements up to the last one
\* that is not empty, and the root path when every element is empty
NormalPath(path) ==
    LET filled == {i \in 1..Len(path) : path[i] # ""}
    IN IF filled = {} THEN <<"">>
       ELSE SubSeq(path, 1, CHOOSE i \in filled : \A j \in filled : j <= i)

\* what the router of the protocol gives for a request
RoutingOf(request) ==
    RouterMatch(create_service_map(RoutedServices[protocol]), RoutedServices[protocol], request)

---------------------------------------------------------------------------
(* Properties of the snapshot stores *)

\* worker w calls the backend method in this step
Calls(w, method) ==
    /\ pc[w] = "idle" /\ pc'[w] = "done"
    /\ req'[w].method = method

\* a copy names a stored source and a target that is not stored
CopyOfStoredToNew(call, store) ==
    call.source \in StoredIds(store) /\ call.identifier \notin StoredIds(store)

C25_StoresWithinLimit ==
    /\ Len(db_snapshots) <= SnapshotLimit(environ)
    /\ Len(db_cluster_snapshots) <= SnapshotLimit(environ)

\* the attribute values a modify call would leave: those stored followed by
\* those to add, without those to remove
ValuesAsked(call, store) ==
    LET values == Stored(store, call.identifier).attribute_values \o call.values_to_add
    IN SelectSeq(values, LAMBDA value :
           \A i \in 1..Len(call.values_to_remove) : call.values_to_remove[i] # value)

\* a modify call that names a manual snapshot and the restore attribute and
\* asks for more than MAX_SHARED_ACCOUNTS values
AsksTooMany(call, store) ==
    /\ call.identifier \in StoredIds(store)
    /\ Stored(store, call.identifier).snapshot_type = "manual"
    /\ call.attribute_name = "restore"
    /\ \A i \in 1..Len(call.values_to_add), j \in 1..Len(call.values_to_remove) :
           call.values_to_add[i] # call.values_to_remove[j]
    /\ Len(ValuesAsked(call, store)) > MAX_SHARED_ACCOUNTS

\* no snapshot of the store is shared with more than MAX_SHARED_ACCOUNTS accounts
SharedWithinLimit(store) ==
    \A i \in 1..Len(store) : Len(store[i].attribute_values) <= MAX_SHARED_ACCOUNTS

\* C23: the restore attribute of a snapshot never lists more than 20
\* account ids, and a modify call that would bring it above 20 raises
\* SharedSnapshotQuotaExceeded and leaves the store as it was; for DB
\* snapshots and for DB cluster snapshots.
C23_SharedAccountsWithinLimit ==
    /\ [](SharedWithinLimit(db_snapshots) /\ SharedWithinLimit(db_cluster_snapshots))
    /\ [][\A w \in Workers :
             /\ (Calls(w, "modify_db_snapshot_attribute")
                     /\ AsksTooMany(req'[w], db_snapshots)) =>
                    /\ outcome'[w] = Raised("SharedSnapshotQuotaExceeded")
                    /\ db_snapshots' = db_snapshots
             /\ (Calls(w, "modify_db_cluster_snapshot_attribute")
                     /\ AsksTooMany(req'[w], db_cluster_snapshots)) =>
                    /\ outcome'[w] = Raised("SharedSnapshotQuotaExceeded")
                    /\ db_cluster_snapshots' = db_cluster_snapshots
        ]_vars

\* the store an iteration goes over
PagedStore == IF pages.kind = "db_snapshots" THEN db_snapshots ELSE db_cluster_snapshots

\* the snapshots of all pages received so far, one after the other
Received_ids == Concat(pages.got)

\* the iteration started with a MaxRecords the service accepts
AcceptedPageSize == pages.max_records >= 20 /\ pages.max_records <= 100

\* the pages received so far are the first snapshots of the store, in store
\* order, each once; without a marker they are all of them
PagesFollowStore ==
    LET all_ids == ResourceIds(PagedStore)
    IN /\ Len(Received_ids) <= Len(all_ids)
       /\ Received_ids = SubSeq(all_ids, 1, Len(Received_ids))
       /\ \A i, j \in 1..Len(Received_ids) : Received_ids[i] = Received_ids[j] => i = j
       /\ pages.finished => Received_ids = all_ids

\* after a call a marker is held exactly when snapshots remain
MarkerIffRemaining ==
    pages.got # <<>> => (pages.marker # "" <=> Len(Received_ids) < Len(PagedStore))

\* C24 (as amended): paging through the snapshots with a first call that gives
\* MaxRecords = P (20 <= P <= 100) and following calls that give the Marker of
\* the previous response returns every stored snapshot once and in store
\* order, a Marker is returned exactly when snapshots remain after the page,
\* and the iteration ends; a page holds at most the MaxRecords of its own
\* call, which is 100 for a call that gives only the Marker.
C24_PagesCoverStoreWithinOwnMaxRecords ==
    /\ [](AcceptedPageSize =>
            /\ PagesFollowStore
            /\ MarkerIffRemaining
            /\ \A i \in 1..Len(pages.got) : Len(pages.got[i]) <= pages.asked[i])
    /\ <>(pages.finished)

\* C24 (as stated): the same, with each page holding at most P snapshots.
C24_PagesCoverStoreWithinFirstMaxRecords ==
    /\ [](AcceptedPageSize =>
            /\ PagesFollowStore
            /\ MarkerIffRemaining
            /\ \A i \in 1..Len(pages.got) : Len(pages.got[i]) <= pages.max_records)
    /\ <>(pages.finished)

\* C24 witness: an iteration of at least three pages has ended, and one with
\* a page longer than the MaxRecords of the first call.
C24_Witness ==
    /\ AcceptedPageSize
    /\ pages.finished
    /\ Len(pages.got) >= 3
    /\ \E i \in 1..Len(pages.got) : Len(pages.got[i]) > pages.max_records
    /\ Received_ids = ResourceIds(PagedStore)

\* the indexes under which the request of a running probe carries an entry
EntriesPresent(w) ==
    { i \in 1..MaxIndex :
        \E k \in DOMAIN req[w].node : \E n \in 1..Len(k) : k[n] = ToString(i) }

\* C26: the index probe of a query-protocol list or map stops after at most
\* one probe more than the number of indexed entries the request carries,
\* whatever the shape, a defaulted list element, map key or nested member
\* included.
C26_ProbeStopsAfterEntries ==
    \A w \in Workers :
        pc[w] = "probe" => idx[w] <= Cardinality(EntriesPresent(w)) + 1

---------------------------------------------------------------------------
(* The router and the REST decoder on the same request *)

\* BaseRestParser._parse_action as a whole: the name under the first regexp
\* of method_urls[method] that matches the path
RestParseAction(ops, method, url_path) ==
    LET regexp_and_names == MethodUrls(ops, method)
        hits == {i \in 1..Len(regexp_and_names) :
                    ReMatch(regexp_and_names[i].regexp, url_path).state = "match"}
    IN IF hits = {} THEN "UnknownOperation"
       ELSE regexp_and_names[CHOOSE i \in hits : \A j \in hits : i <= j].name

\* C27: for every REST request the router resolves to an operation, the REST
\* decoder's own selection for the same method and path picks that same
\* operation, also when several operations share the method and the path
\* template and differ in their required markers.
C27_DecoderPicksRoutedOperation ==
    \A w \in Workers :
        (Routed(w) /\ protocol = "rest-json" /\ ~IsRaised(outcome[w])) =>
            RestParseAction(RoutedRestOperations, req[w].method, req[w].path)
                = outcome[w].operation

---------------------------------------------------------------------------
(* Properties of the members bound to a location *)

\* the request of worker w lacks a querystring-bound member of the input
QuerystringMemberAbsent(w) ==
    \E i \in LocatedMembers(w, {"querystring"}) : CarriedAt(w, i) = UNDEFINED

\* C28: each location-bound member is decoded independently of the others:
\* when a request lacks an optional querystring-bound member, every
\* header-, headers-, uri- or querystring-bound member the request does
\* carry is in the decoded result, wherever it stands in the member order.
C28_AbsentQuerystringMemberStopsNothing ==
    \A w \in Workers :
        (Succeeded(w) /\ QuerystringMemberAbsent(w)) =>
            \A i \in LocatedMembers(w, {"uri", "header", "headers", "querystring"}) :
                CarriedAt(w, i) # UNDEFINED =>
                    InputShape(w).members[i].mname \in DOMAIN outcome[w].params

---------------------------------------------------------------------------
(* Properties of the Elastic IP addresses *)

\* worker w calls associate_address without reassociate in this step, for an
\* address that is found and is associated with an instance or an interface
AssociatesAssociated(w) ==
    /\ Calls(w, "associate_address")
    /\ ~req'[w].reassociate
    /\ LET found == FindAddress(addresses, req'[w].address, req'[w].allocation_id)
       IN /\ ~IsRaised(found)
          /\ \/ addresses.addresses[found.index].instance # ""
             \/ addresses.addresses[found.index].eni # ""

\* an instance or interface, and another one
Different(old, new) == old # "" /\ new # "" /\ new # old

\* the call of worker w names an instance or an interface other than the one
\* the address is associated with; an instance named alone stands for its
\* primary interface too
NamesAnother(w, eip) ==
    \/ Different(eip.instance, req'[w].instance)
    \/ Different(eip.eni, req'[w].eni)
    \/ /\ req'[w].eni = "" /\ req'[w].instance # ""
       /\ Different(eip.eni, PrimaryNic(req'[w].instance))

\* C29: associate_address without reassociate never re-points an address
\* that is associated with an instance or a network interface: the address
\* is not given another instance or interface, and a call that names another
\* instance or interface fails with ResourceAlreadyAssociatedError and
\* changes nothing.
C29_NoRepointingWithoutReassociate ==
    [][\A w \in Workers :
          AssociatesAssociated(w) =>
              LET index == FindAddress(addresses, req'[w].address,
                                       req'[w].allocation_id).index
                  eip == addresses.addresses[index]
                  after == addresses'.addresses[index]
              IN /\ ~Different(eip.instance, after.instance)
                 /\ ~Different(eip.eni, after.eni)
                 /\ NamesAnother(w, eip) =>
                        /\ outcome'[w] = Raised("ResourceAlreadyAssociatedError")
                        /\ addresses' = addresses]_vars

---------------------------------------------------------------------------
(* Properties of the CloudFront distributions *)

\* C30: after any sequence of create, update and delete operations no two
\* stored distributions have the same CallerReference.
C30_CallerReferencesUnique ==
    \A i, j \in 1..Len(distributions) :
        distributions[i].distribution_config.caller_reference
            = distributions[j].distribution_config.caller_reference => i = j

====
